---------------------------- MODULE Spec2Model ----------------------------
(***************************************************************************)
(* Cuneos: a single-node proof-of-work ledger with difficulty retargeting, *)
(* user shards, encrypted profiles and a key store (src/main.rs).          *)
(*                                                                         *)
(* Numbers.  The f64 quantities of the program (difficulty, durations,     *)
(* EMA, target block time, mining power) are exact rationals <<n, d>>,     *)
(* d > 0, in lowest terms.  Mining durations are strictly positive.        *)
(* Option<T> is a sequence of length at most one.                          *)
(***************************************************************************)
EXTENDS Integers, Sequences, FiniteSets, TLC

VARIABLES
    ledger,           \* the GlobalLedger struct
    clock,            \* wall clock, whole seconds (SystemTime::now)
    shared_keys,      \* HashMap<(holder, subject), key>, as a function on its domain
    mock_profile_db,  \* Vec<Profile>
    shards,           \* user id -> the UserShard fields modelled
    retarget,         \* what the last add_block did about retargeting
    in_force,         \* per block, the ledger difficulty it was mined under
    ops,              \* number of user-shard operations issued
    call,             \* the last call made, with its arguments and return value
    grants,           \* <<revoker, target>> -> what last happened to that grant
    mining            \* the mine_block call in progress, if any

vars == <<ledger, clock, shared_keys, mock_profile_db, shards, retarget, in_force, ops,
          call, grants, mining>>

\* ------------------------------------------------------------------ bounds
MaxBlocks == 2           \* blocks appended after genesis, Spec and SpecAccess
MaxShardOps == 2         \* update_profile / delete_profile / revoke_key calls, Spec
MaxLedgerBlocks == 4     \* blocks appended after genesis, SpecLedger
MaxDifficultyParam == 4  \* constructor arguments initial_difficulty, max_difficulty
MaxMinDifficulty == 2    \* constructor argument min_difficulty
MaxInterval == 3         \* constructor argument adjustment_interval
MaxFetchBlocks == 2      \* blocks appended after genesis, SpecFetch
NonceBits == 8           \* width of the nonce counter in SpecMine (u64 in the source)

\* --------------------------------------------------------------- rationals
None == <<>>
Some(x) == <<x>>

RECURSIVE GCD(_, _)
GCD(a, b) == IF b = 0 THEN a ELSE GCD(b, a % b)

Rat(n, d) == LET g == GCD(n, d) IN <<n \div g, d \div g>>
RInt(n) == <<n, 1>>
RMul(a, b) == Rat(a[1] * b[1], a[2] * b[2])
RDiv(a, b) == Rat(a[1] * b[2], a[2] * b[1])
RAdd(a, b) == Rat(a[1] * b[2] + b[1] * a[2], a[2] * b[2])
RLt(a, b) == a[1] * b[2] < b[1] * a[2]
\* f64 as usize, for a non-negative value: truncation
AsUsize(a) == a[1] \div a[2]

RECURSIVE RSum(_)
RSum(s) == IF s = <<>> THEN RInt(0) ELSE RAdd(s[1], RSum(Tail(s)))

Last(s) == s[Len(s)]

\* ------------------------------------------------------------ transactions
Tx(type, sender, receiver, timestamp, id) ==
    [transaction_type |-> type, sender_id |-> sender, receiver_id |-> receiver,
     amount |-> None, duration |-> None, reason |-> None, user_id |-> None,
     updated_profile |-> None, match_pair |-> None, revoked_key_pair |-> None,
     encrypted_key |-> None, encrypted_content |-> None,
     timestamp |-> timestamp, global_tx_id |-> id]

new_peace_transfer(sender, receiver, amount, timestamp, id) ==
    [Tx("PeaceTransfer", sender, receiver, timestamp, id) EXCEPT !.amount = Some(amount)]

new_profile_deletion(user, timestamp, id) ==
    [Tx("ProfileDeletion", user, "system", timestamp, id) EXCEPT !.user_id = Some(user)]

new_profile_update(user, updated_profile, timestamp, id) ==
    [Tx("ProfileUpdate", user, "system", timestamp, id)
        EXCEPT !.user_id = Some(user), !.updated_profile = Some(updated_profile)]

\* a revocation recorded with the target as its sender
new_key_revocation_by_target(revoker, target, timestamp, id) ==
    [Tx("KeyRevocation", target, revoker, timestamp, id)
        EXCEPT !.revoked_key_pair = Some(<<revoker, target>>)]

new_key_revocation(revoker, target, timestamp, id) ==
    [Tx("KeyRevocation", revoker, target, timestamp, id)
        EXCEPT !.revoked_key_pair = Some(<<revoker, target>>)]

new_key_share(sender, receiver, encrypted_key, timestamp, id) ==
    [Tx("KeyShare", sender, receiver, timestamp, id)
        EXCEPT !.encrypted_key = Some(encrypted_key)]

\* a Match constructor that also fills user_id
new_match_with_user_id(user_id1, user_id2, timestamp, id) ==
    [Tx("Match", user_id1, user_id2, timestamp, id)
        EXCEPT !.match_pair = Some(<<user_id1, user_id2>>), !.user_id = Some(user_id1)]

new_match(user_id1, user_id2, timestamp, id) ==
    [Tx("Match", user_id1, user_id2, timestamp, id)
        EXCEPT !.match_pair = Some(<<user_id1, user_id2>>)]

\* nonce || AES-GCM ciphertext of the content under the shared key
EncryptContent(content, shared_key, nonce) ==
    [nonce |-> nonce, key |-> shared_key, plaintext |-> content]

new_message(sender, receiver, content, shared_key, nonce, timestamp, id) ==
    [Tx("Message", sender, receiver, timestamp, id)
        EXCEPT !.encrypted_content = Some(EncryptContent(content, shared_key, nonce))]

new_like(sender, receiver, timestamp, id) == Tx("Like", sender, receiver, timestamp, id)

new_photo_share(sender, receiver, content, shared_key, nonce, timestamp, id) ==
    [Tx("PhotoShare", sender, receiver, timestamp, id)
        EXCEPT !.encrypted_content = Some(EncryptContent(content, shared_key, nonce))]

new_block_user(sender, receiver, timestamp, id) ==
    Tx("BlockUser", sender, receiver, timestamp, id)

new_video_call(sender, receiver, duration, timestamp, id) ==
    [Tx("VideoCall", sender, receiver, timestamp, id) EXCEPT !.duration = Some(duration)]

new_report_user(sender, receiver, reason, timestamp, id) ==
    [Tx("ReportUser", sender, receiver, timestamp, id) EXCEPT !.reason = Some(reason)]

GenesisTx == new_peace_transfer("system", "genesis", 0, "2025-03-04", "genesis_tx")

\* ------------------------------------------------------------------ hashing
\* The hash of the string "0" handed to the genesis block as previous_hash.
ZeroHash == [zeros |-> 1, pre |-> <<>>]

\* SHA3-256 is idealised: the digest is collision free (it carries its
\* preimage) and its number of leading zero hex digits is a fixed
\* pseudo-random function of the preimage.
LeadingZeros(transactions, previous_hash, nonce, timestamp) ==
    LET v == ((nonce \div 100) + timestamp + Len(transactions) + previous_hash.zeros) % 11
    IN  IF v = 0 THEN 64
        ELSE IF v = 8 THEN 3
        ELSE IF v = 4 THEN 2
        ELSE IF v % 2 = 0 THEN 1
        ELSE 0

compute_hash(block) ==
    [zeros |-> LeadingZeros(block.transactions, block.previous_hash, block.nonce, block.timestamp),
     pre   |-> <<block.transactions, block.previous_hash, block.nonce, block.timestamp>>]

\* a prefix test that lets a hash through with one zero fewer
StartsWithFewerZeros(hash, difficulty) == hash.zeros >= difficulty - 1

\* hash.starts_with("0".repeat(difficulty))
StartsWithZeros(hash, difficulty) == hash.zeros >= difficulty

\* -------------------------------------------------------------------- miner
Miner(name, mining_power) == [name |-> name, mining_power |-> mining_power]

\* a stride rounded to the nearest integer
IncrementRounded(miner) ==
    LET stride == RMul(miner.mining_power, RInt(1000))
    IN  (2 * stride[1] + stride[2]) \div (2 * stride[2])

\* (self.mining_power * 1000.0) as u64
Increment(miner) == AsUsize(RMul(miner.mining_power, RInt(1000)))

RECURSIVE mine_block(_, _, _)
mine_block(miner, block, difficulty) ==
    LET hashed == [block EXCEPT !.hash = compute_hash(block)]
    IN  IF StartsWithZeros(hashed.hash, difficulty)
        THEN hashed
        ELSE mine_block(miner, [hashed EXCEPT !.nonce = @ + Increment(miner)], difficulty)

\* the passes of the loop that end in `block.nonce += increment`
RECURSIVE FailedAttempts(_, _, _)
FailedAttempts(miner, block, difficulty) ==
    IF StartsWithZeros(compute_hash(block), difficulty) THEN 0
    ELSE 1 + FailedAttempts(miner, [block EXCEPT !.nonce = @ + Increment(miner)], difficulty)

GlobalBlockNew(transactions, previous_hash, miner, difficulty, timestamp) ==
    mine_block(miner,
               [transactions |-> transactions, previous_hash |-> previous_hash,
                nonce |-> 0, hash |-> ZeroHash, timestamp |-> timestamp,
                miner_name |-> miner.name],
               difficulty)

\* ------------------------------------------------------------------- ledger
\* a constructor that lets the last miner of the roster mine the genesis block
GlobalLedgerNewLastMiner(initial_difficulty, max_difficulty, min_difficulty, target_block_time, adjustment_interval, miners, timestamp) ==
    [chain |-> <<GlobalBlockNew(<<GenesisTx>>, ZeroHash, miners[Len(miners)],
                                initial_difficulty, timestamp)>>,
     difficulty |-> RInt(initial_difficulty),
     max_difficulty |-> max_difficulty,
     min_difficulty |-> min_difficulty,
     target_block_time |-> target_block_time,
     adjustment_interval |-> adjustment_interval,
     miners |-> miners,
     mining_durations |-> <<>>,
     ema_block_time |-> None]

GlobalLedgerNew(initial_difficulty, max_difficulty, min_difficulty, target_block_time, adjustment_interval, miners, timestamp) ==
    [chain |-> <<GlobalBlockNew(<<GenesisTx>>, ZeroHash, miners[1],
                                initial_difficulty, timestamp)>>,
     difficulty |-> RInt(initial_difficulty),
     max_difficulty |-> max_difficulty,
     min_difficulty |-> min_difficulty,
     target_block_time |-> target_block_time,
     adjustment_interval |-> adjustment_interval,
     miners |-> miners,
     mining_durations |-> <<>>,
     ema_block_time |-> None]

RecentDurations(l) ==
    LET n == Len(l.mining_durations)
        start_idx == IF n > l.adjustment_interval THEN n - l.adjustment_interval ELSE 0
    IN  SubSeq(l.mining_durations, start_idx + 1, n)

\* an early return taken on an empty window only
AdjustComparesOne(l) == Len(RecentDurations(l)) >= 1

\* adjust_difficulty gets past its early return
AdjustCompares(l) == Len(RecentDurations(l)) >= 2

AvgBlockTime(l) ==
    IF l.ema_block_time # None
    THEN l.ema_block_time[1]
    ELSE RDiv(RSum(RecentDurations(l)), RInt(Len(RecentDurations(l))))

\* a retarget that forgets the clamp to max_difficulty
adjust_difficulty_unclamped(l) ==
    IF ~AdjustCompares(l) THEN l
    ELSE
      LET avg_block_time == AvgBlockTime(l)
          scaled == RMul(l.difficulty, RDiv(l.target_block_time, avg_block_time))
      IN  IF RLt(avg_block_time, RMul(l.target_block_time, <<1, 2>>))
          THEN [l EXCEPT !.difficulty = scaled]
          ELSE IF RLt(RMul(l.target_block_time, <<3, 2>>), avg_block_time)
          THEN [l EXCEPT !.difficulty =
                    IF RLt(scaled, RInt(l.min_difficulty))
                    THEN RInt(l.min_difficulty) ELSE scaled]
          ELSE l

\* a retarget that scales by avg_time / target_block_time
adjust_difficulty_inverted(l) ==
    IF ~AdjustCompares(l) THEN l
    ELSE
      LET avg_block_time == AvgBlockTime(l)
          scaled == RMul(l.difficulty, RDiv(avg_block_time, l.target_block_time))
      IN  IF RLt(avg_block_time, RMul(l.target_block_time, <<1, 2>>))
          THEN [l EXCEPT !.difficulty =
                    IF RLt(RInt(l.max_difficulty), scaled)
                    THEN RInt(l.max_difficulty) ELSE scaled]
          ELSE IF RLt(RMul(l.target_block_time, <<3, 2>>), avg_block_time)
          THEN [l EXCEPT !.difficulty =
                    IF RLt(scaled, RInt(l.min_difficulty))
                    THEN RInt(l.min_difficulty) ELSE scaled]
          ELSE l

\* a retarget whose band excludes its two bounds
adjust_difficulty_open_band(l) ==
    IF ~AdjustCompares(l) THEN l
    ELSE
      LET avg_block_time == AvgBlockTime(l)
          scaled == RMul(l.difficulty, RDiv(l.target_block_time, avg_block_time))
      IN  IF ~RLt(RMul(l.target_block_time, <<1, 2>>), avg_block_time)
          THEN [l EXCEPT !.difficulty =
                    IF RLt(RInt(l.max_difficulty), scaled)
                    THEN RInt(l.max_difficulty) ELSE scaled]
          ELSE IF ~RLt(avg_block_time, RMul(l.target_block_time, <<3, 2>>))
          THEN [l EXCEPT !.difficulty =
                    IF RLt(scaled, RInt(l.min_difficulty))
                    THEN RInt(l.min_difficulty) ELSE scaled]
          ELSE l

\* a retarget whose increasing branch clamps to min_difficulty
adjust_difficulty_clamps_low(l) ==
    IF ~AdjustCompares(l) THEN l
    ELSE
      LET avg_block_time == AvgBlockTime(l)
          lower_threshold == RMul(l.target_block_time, <<1, 2>>)
          upper_threshold == RMul(l.target_block_time, <<3, 2>>)
          factor == RDiv(l.target_block_time, avg_block_time)
          scaled == RMul(l.difficulty, factor)
      IN  IF RLt(avg_block_time, lower_threshold)
          THEN [l EXCEPT !.difficulty =
                    IF RLt(RInt(l.max_difficulty), scaled)
                    THEN RInt(l.min_difficulty) ELSE scaled]
          ELSE IF RLt(upper_threshold, avg_block_time)
          THEN [l EXCEPT !.difficulty =
                    IF RLt(scaled, RInt(l.min_difficulty))
                    THEN RInt(l.min_difficulty) ELSE scaled]
          ELSE l

adjust_difficulty(l) ==
    IF ~AdjustCompares(l) THEN l
    ELSE
      LET avg_block_time == AvgBlockTime(l)
          lower_threshold == RMul(l.target_block_time, <<1, 2>>)
          upper_threshold == RMul(l.target_block_time, <<3, 2>>)
          factor == RDiv(l.target_block_time, avg_block_time)
          scaled == RMul(l.difficulty, factor)
      IN  IF RLt(avg_block_time, lower_threshold)
          THEN [l EXCEPT !.difficulty =
                    IF RLt(RInt(l.max_difficulty), scaled)
                    THEN RInt(l.max_difficulty) ELSE scaled]
          ELSE IF RLt(upper_threshold, avg_block_time)
          THEN [l EXCEPT !.difficulty =
                    IF RLt(scaled, RInt(l.min_difficulty))
                    THEN RInt(l.min_difficulty) ELSE scaled]
          ELSE l

\* an EMA that weighs the newest sample 0.7
EmaUpdateSwapped(ema_block_time, duration) ==
    IF ema_block_time # None
    THEN Some(RAdd(RMul(<<7, 10>>, duration), RMul(<<3, 10>>, ema_block_time[1])))
    ELSE Some(duration)

\* an EMA that is never seeded by the first duration
EmaUpdateUnseeded(ema_block_time, duration) ==
    IF ema_block_time # None
    THEN Some(RAdd(RMul(<<3, 10>>, duration), RMul(<<7, 10>>, ema_block_time[1])))
    ELSE None

EmaUpdate(ema_block_time, duration) ==
    IF ema_block_time # None
    THEN Some(RAdd(RMul(<<3, 10>>, duration), RMul(<<7, 10>>, ema_block_time[1])))
    ELSE Some(duration)

\* add_block linking every new block to the genesis block
AppendedToGenesis(l, transactions, miner, duration, timestamp) ==
    LET block == GlobalBlockNew(transactions, l.chain[1].hash, miner,
                                AsUsize(l.difficulty), timestamp)
    IN  [l EXCEPT !.mining_durations = Append(@, duration),
                  !.chain = Append(@, block),
                  !.ema_block_time = IF @ # None
                        THEN Some(RAdd(RMul(<<3, 10>>, duration), RMul(<<7, 10>>, @[1])))
                        ELSE Some(duration)]

\* an append that records the duration only once an EMA exists
AppendedUnrecorded(l, transactions, miner, duration, timestamp) ==
    LET previous_hash == IF l.chain # <<>> THEN Last(l.chain).hash ELSE ZeroHash
        block == GlobalBlockNew(transactions, previous_hash, miner,
                                AsUsize(l.difficulty), timestamp)
    IN  [l EXCEPT !.mining_durations = IF l.ema_block_time # None THEN Append(@, duration) ELSE @,
                  !.chain = Append(@, block),
                  !.ema_block_time = EmaUpdate(@, duration)]

\* the ledger after the push and the EMA update, before the interval test
Appended(l, transactions, miner, duration, timestamp) ==
    LET previous_hash == IF l.chain # <<>> THEN Last(l.chain).hash ELSE ZeroHash
        block == GlobalBlockNew(transactions, previous_hash, miner,
                                AsUsize(l.difficulty), timestamp)
    IN  [l EXCEPT !.mining_durations = Append(@, duration),
                  !.chain = Append(@, block),
                  !.ema_block_time = EmaUpdate(@, duration)]

\* an interval test that counts the appended blocks only
AdjustCalledAppended(l) == (Len(l.chain) - 1) % l.adjustment_interval = 0

AdjustCalled(l) == Len(l.chain) % l.adjustment_interval = 0

add_block(l, transactions, miner, duration, timestamp) ==
    LET a == Appended(l, transactions, miner, duration, timestamp)
    IN  IF AdjustCalled(a) THEN adjust_difficulty(a) ELSE a

RetargetLog(l, transactions, miner, duration, timestamp) ==
    LET a == Appended(l, transactions, miner, duration, timestamp)
    IN  [called   |-> AdjustCalled(a),
         compared |-> AdjustCalled(a) /\ AdjustCompares(a),
         avg      |-> IF AdjustCalled(a) /\ AdjustCompares(a)
                      THEN Some(AvgBlockTime(a)) ELSE None]

NoRetarget == [called |-> FALSE, compared |-> FALSE, avg |-> None]

\* ----------------------------------------------------------------- profiles
\* AES-256-GCM: nonce || ciphertext; the ciphertext authenticates under the
\* key it was produced with and under no other.
Encrypt(plaintext, key, nonce) == [nonce |-> nonce, key |-> key, plaintext |-> plaintext]

\* cipher.decrypt(nonce, ciphertext): the plaintext, or nothing under another key
Decrypt(encrypted_data, key) ==
    IF encrypted_data.key = key THEN Some(encrypted_data.plaintext) ELSE None

\* serde_json::to_vec(&raw_data): the fields in declaration order
Serialize(raw_data) ==
    <<raw_data.name, raw_data.age, raw_data.bio, raw_data.interests, raw_data.location>>

\* serde_json::from_slice(..).ok()
Deserialize(bytes) ==
    IF Len(bytes) = 5
    THEN Some([name |-> bytes[1], age |-> bytes[2], bio |-> bytes[3],
               interests |-> bytes[4], location |-> bytes[5]])
    ELSE None

ProfileNew(user_id, raw_data, key, nonce) ==
    [user_id |-> user_id, encrypted_data |-> Encrypt(Serialize(raw_data), key, nonce),
     is_deleted |-> FALSE]

\* a decrypt that does not look at the deletion flag
ProfileDecryptIgnoringDeletion(profile, key) ==
    LET plaintext == Decrypt(profile.encrypted_data, key)
    IN  IF plaintext # None THEN Deserialize(plaintext[1]) ELSE None

\* a decrypt that accepts every key
ProfileDecryptAnyKey(profile, key) ==
    IF profile.is_deleted THEN None
    ELSE Deserialize(profile.encrypted_data.plaintext)

ProfileDecrypt(profile, key) ==
    IF profile.is_deleted THEN None
    ELSE LET plaintext == Decrypt(profile.encrypted_data, key)
         IN  IF plaintext # None THEN Deserialize(plaintext[1]) ELSE None

ProfileUpdate(profile, new_data, key, nonce) == Encrypt(Serialize(new_data), key, nonce)

\* ------------------------------------------------------ the demo's constants
INITIAL_DIFFICULTY == 3
MAX_DIFFICULTY == 4
MIN_DIFFICULTY == 1
TARGET_BLOCK_TIME == 5
ADJUSTMENT_INTERVAL == 3

MainMiners == <<Miner("Miner1", <<1, 1>>), Miner("Miner2", <<3, 2>>),
                Miner("Miner3", <<7, 10>>)>>

Users == {"alice", "bob"}
SymmetricKey == [u \in Users |-> IF u = "alice" THEN "key_alice" ELSE "key_bob"]
Keys == {SymmetricKey[u] : u \in Users}

\* a bio is the sequence of its words
RawData ==
    [alice |-> [name |-> "Alice", age |-> 28, bio |-> <<"Loves", "hiking", "and", "coffee">>,
                interests |-> <<"hiking", "photography">>, location |-> "CA"],
     bob   |-> [name |-> "Bob", age |-> 30, bio |-> <<"Enjoys", "hiking", "and", "reading">>,
                interests |-> <<"hiking", "reading">>, location |-> "CA"],
     charlie |-> [name |-> "Charlie", age |-> 25, bio |-> <<"Loves", "music", "and", "travel">>,
                  interests |-> <<"music", "travel">>, location |-> "NY"],
     diana |-> [name |-> "Diana", age |-> 28, bio |-> <<"Into", "photography", "and", "coffee">>,
                interests |-> <<"photography", "coffee">>, location |-> "CA"]]
UpdatedData ==
    [name |-> "Alice", age |-> 28, bio |-> <<"Loves", "hiking", "coffee", "and", "now", "yoga">>,
     interests |-> <<"hiking", "photography", "yoga">>, location |-> "CA"]

MainProfileDb == <<ProfileNew("bob", RawData.bob, SymmetricKey["bob"], 1),
                   ProfileNew("alice", RawData.alice, SymmetricKey["alice"], 1)>>

MainSharedKeys ==
    [p \in {<<"bob", "alice">>, <<"alice", "bob">>, <<"alice", "alice">>, <<"bob", "bob">>}
        |-> SymmetricKey[p[2]]]

\* main(): all four users, in the order their profiles enter the database
AllUsers == <<"bob", "charlie", "diana", "alice">>
ProfileKey(u) ==
    CASE u = "charlie" -> "key_charlie"
      [] u = "diana" -> "key_diana"
      [] OTHER -> SymmetricKey[u]
FullProfileDb ==
    [i \in 1..Len(AllUsers) |-> ProfileNew(AllUsers[i], RawData[AllUsers[i]], ProfileKey(AllUsers[i]), 1)]

\* key stores in which each shard's user holds every user's key: with the
\* right keys, and with bob's key stored in alice's entry for diana
FullSharedKeys == [p \in Users \X {AllUsers[i] : i \in 1..Len(AllUsers)} |-> ProfileKey(p[2])]
StaleSharedKeys ==
    [FullSharedKeys EXCEPT ![<<"alice", "diana">>] = ProfileKey("bob")]

\* main(): interactions held by a shard, with their scores
ScoredInteractions ==
    <<[event_type |-> "match", user_id |-> "alice", target_id |-> "bob", score |-> 5],
      [event_type |-> "message", user_id |-> "charlie", target_id |-> "alice", score |-> 7],
      [event_type |-> "videocall", user_id |-> "diana", target_id |-> "alice", score |-> 4],
      [event_type |-> "photo_share", user_id |-> "alice", target_id |-> "diana", score |-> 3]>>

DbProfile(db, u) == db[CHOOSE i \in 1..Len(db) : db[i].user_id = u]

\* mining wall times, in seconds
Durations == {RInt(1), RInt(3), RInt(10)}
ShardDurations == {RInt(9)}
TargetBlockTimes == {RInt(2), RInt(TARGET_BLOCK_TIME)}

\* ---------------------------------------------------- fetch_relevant_profiles
UnwrapOr(option, default) == IF option = None THEN default ELSE option[1]

NoFilter ==
    [location |-> None, min_age |-> None, max_age |-> None, interests |-> None,
     bio_keywords |-> None, min_score |-> None, recent_matches |-> None]

\* main(): basic_filter and enhanced_filter
basic_filter ==
    [NoFilter EXCEPT !.location = Some("CA"), !.min_age = Some(25), !.max_age = Some(30),
                     !.interests = Some(<<"hiking", "photography">>)]
enhanced_filter ==
    [NoFilter EXCEPT !.location = Some("CA"), !.bio_keywords = Some(<<"hiking", "yoga">>),
                     !.min_score = Some(14), !.recent_matches = Some(TRUE)]
Filters == {basic_filter, enhanced_filter}
\* filters that also leave out every test, and keep only the score test
score_filter == [NoFilter EXCEPT !.min_score = Some(5)]
FetchFilters == {NoFilter, basic_filter, enhanced_filter, score_filter}

Range(seq) == {seq[i] : i \in 1..Len(seq)}

\* chain.iter().flat_map(|block| &block.transactions)
RECURSIVE ChainTransactions(_)
ChainTransactions(chain) ==
    IF chain = <<>> THEN <<>>
    ELSE chain[1].transactions \o ChainTransactions(Tail(chain))

TransactionsOfType(l, type) ==
    SelectSeq(ChainTransactions(l.chain), LAMBDA tx : tx.transaction_type = type)

RecentMatches(filter, l) ==
    IF UnwrapOr(filter.recent_matches, FALSE)
    THEN {tx.match_pair[1] : tx \in {t \in Range(TransactionsOfType(l, "Match")) : t.match_pair # None}}
    ELSE {}

RevokedKeys(l) ==
    {tx.revoked_key_pair[1] :
        tx \in {t \in Range(TransactionsOfType(l, "KeyRevocation")) : t.revoked_key_pair # None}}

BlockedUsers(l) ==
    {<<tx.sender_id, tx.receiver_id>> : tx \in Range(TransactionsOfType(l, "BlockUser"))}

ReportedUsers(l, user_id) ==
    Len(SelectSeq(TransactionsOfType(l, "ReportUser"), LAMBDA tx : tx.receiver_id = user_id))

REPORT_THRESHOLD == 2

RECURSIVE SumScores(_)
SumScores(interactions) ==
    IF interactions = <<>> THEN 0 ELSE interactions[1].score + SumScores(Tail(interactions))

calculate_interaction_score(shard, target_id) ==
    SumScores(SelectSeq(shard.interactions,
                        LAMBDA i : i.target_id = target_id \/ i.user_id = target_id))

\* str::to_lowercase on the words the profiles and filters use
ToLowercase(word) ==
    CASE word = "Loves" -> "loves"
      [] word = "Enjoys" -> "enjoys"
      [] word = "Into" -> "into"
      [] OTHER -> word

\* bio_lower.contains(&kw.to_lowercase()), a bio being the sequence of its words
BioContains(bio, kw) == \E i \in 1..Len(bio) : ToLowercase(bio[i]) = ToLowercase(kw)

\* filter tests whose age bounds are exclusive
MatchesExclusiveAge(shard, filter, raw_data, profile, fetcher_id, l) ==
    /\ filter.location # None => raw_data.location = filter.location[1]
    /\ filter.min_age # None => raw_data.age > filter.min_age[1]
    /\ filter.max_age # None => raw_data.age < filter.max_age[1]
    /\ filter.interests # None =>
          \E i \in 1..Len(raw_data.interests) : raw_data.interests[i] \in Range(filter.interests[1])
    /\ filter.bio_keywords # None =>
          \E k \in 1..Len(filter.bio_keywords[1]) : BioContains(raw_data.bio, filter.bio_keywords[1][k])
    /\ filter.min_score # None =>
          ~(calculate_interaction_score(shard, profile.user_id) < filter.min_score[1])
    /\ UnwrapOr(filter.recent_matches, FALSE) =>
          \E pair \in RecentMatches(filter, l) :
              \/ pair[1] = fetcher_id /\ pair[2] = profile.user_id
              \/ pair[2] = fetcher_id /\ pair[1] = profile.user_id

\* the filter tests of the loop body
Matches(shard, filter, raw_data, profile, fetcher_id, l) ==
    /\ filter.location # None => raw_data.location = filter.location[1]
    /\ filter.min_age # None => ~(raw_data.age < filter.min_age[1])
    /\ filter.max_age # None => ~(raw_data.age > filter.max_age[1])
    /\ filter.interests # None =>
          \E i \in 1..Len(raw_data.interests) : raw_data.interests[i] \in Range(filter.interests[1])
    /\ filter.bio_keywords # None =>
          \E k \in 1..Len(filter.bio_keywords[1]) : BioContains(raw_data.bio, filter.bio_keywords[1][k])
    /\ filter.min_score # None =>
          ~(calculate_interaction_score(shard, profile.user_id) < filter.min_score[1])
    /\ UnwrapOr(filter.recent_matches, FALSE) =>
          \E pair \in RecentMatches(filter, l) :
              \/ pair[1] = fetcher_id /\ pair[2] = profile.user_id
              \/ pair[2] = fetcher_id /\ pair[1] = profile.user_id

\* a loop body that drops a candidate whose key is missing
VisitDroppingKeyless(shard, filter, profile, keys, fetcher_id, l) ==
    LET key_pair == <<fetcher_id, profile.user_id>>
        reverse_key_pair == <<profile.user_id, fetcher_id>>
    IN  IF profile.is_deleted \/ profile.user_id = fetcher_id THEN "skipped"
        ELSE IF \/ <<fetcher_id, profile.user_id>> \in BlockedUsers(l)
                \/ <<profile.user_id, fetcher_id>> \in BlockedUsers(l) THEN "skipped"
        ELSE IF ReportedUsers(l, profile.user_id) >= REPORT_THRESHOLD THEN "skipped"
        ELSE IF key_pair \in DOMAIN keys
        THEN IF reverse_key_pair \in RevokedKeys(l) THEN "inaccessible"
             ELSE LET raw_data == ProfileDecrypt(profile, keys[key_pair])
                  IN  IF raw_data # None /\ Matches(shard, filter, raw_data[1], profile, fetcher_id, l)
                      THEN "relevant"
                      ELSE "skipped"
        ELSE "skipped"

\* a loop body that looks the key up under (candidate, fetcher)
VisitReverseLookup(shard, filter, profile, keys, fetcher_id, l) ==
    LET key_pair == <<profile.user_id, fetcher_id>>
        reverse_key_pair == <<profile.user_id, fetcher_id>>
    IN  IF profile.is_deleted \/ profile.user_id = fetcher_id THEN "skipped"
        ELSE IF \/ <<fetcher_id, profile.user_id>> \in BlockedUsers(l)
                \/ <<profile.user_id, fetcher_id>> \in BlockedUsers(l) THEN "skipped"
        ELSE IF ReportedUsers(l, profile.user_id) >= REPORT_THRESHOLD THEN "skipped"
        ELSE IF key_pair \in DOMAIN keys
        THEN IF reverse_key_pair \in RevokedKeys(l) THEN "inaccessible"
             ELSE LET raw_data == ProfileDecrypt(profile, keys[key_pair])
                  IN  IF raw_data # None /\ Matches(shard, filter, raw_data[1], profile, fetcher_id, l)
                      THEN "relevant"
                      ELSE "skipped"
        ELSE "inaccessible"

\* a loop body that looks for a block by the fetcher only
VisitBlockedOneWay(shard, filter, profile, keys, fetcher_id, l) ==
    LET key_pair == <<fetcher_id, profile.user_id>>
        reverse_key_pair == <<profile.user_id, fetcher_id>>
    IN  IF profile.is_deleted \/ profile.user_id = fetcher_id THEN "skipped"
        ELSE IF <<fetcher_id, profile.user_id>> \in BlockedUsers(l) THEN "skipped"
        ELSE IF ReportedUsers(l, profile.user_id) >= REPORT_THRESHOLD THEN "skipped"
        ELSE IF key_pair \in DOMAIN keys
        THEN IF reverse_key_pair \in RevokedKeys(l) THEN "inaccessible"
             ELSE LET raw_data == ProfileDecrypt(profile, keys[key_pair])
                  IN  IF raw_data # None /\ Matches(shard, filter, raw_data[1], profile, fetcher_id, l)
                      THEN "relevant"
                      ELSE "skipped"
        ELSE "inaccessible"

\* a loop body that lets a revoked candidate through when the key is held
VisitIgnoringRevocation(shard, filter, profile, keys, fetcher_id, l) ==
    LET key_pair == <<fetcher_id, profile.user_id>>
        reverse_key_pair == <<profile.user_id, fetcher_id>>
    IN  IF profile.is_deleted \/ profile.user_id = fetcher_id THEN "skipped"
        ELSE IF \/ <<fetcher_id, profile.user_id>> \in BlockedUsers(l)
                \/ <<profile.user_id, fetcher_id>> \in BlockedUsers(l) THEN "skipped"
        ELSE IF ReportedUsers(l, profile.user_id) >= REPORT_THRESHOLD THEN "skipped"
        ELSE IF key_pair \in DOMAIN keys
        THEN IF FALSE THEN "inaccessible"
             ELSE LET raw_data == ProfileDecrypt(profile, keys[key_pair])
                  IN  IF raw_data # None /\ Matches(shard, filter, raw_data[1], profile, fetcher_id, l)
                      THEN "relevant"
                      ELSE "skipped"
        ELSE "inaccessible"

\* a loop body that looks for a revocation in either direction
VisitRevokedEitherWay(shard, filter, profile, keys, fetcher_id, l) ==
    LET key_pair == <<fetcher_id, profile.user_id>>
        reverse_key_pair == <<profile.user_id, fetcher_id>>
    IN  IF profile.is_deleted \/ profile.user_id = fetcher_id THEN "skipped"
        ELSE IF \/ <<fetcher_id, profile.user_id>> \in BlockedUsers(l)
                \/ <<profile.user_id, fetcher_id>> \in BlockedUsers(l) THEN "skipped"
        ELSE IF ReportedUsers(l, profile.user_id) >= REPORT_THRESHOLD THEN "skipped"
        ELSE IF key_pair \in DOMAIN keys
        THEN IF reverse_key_pair \in RevokedKeys(l) \/ key_pair \in RevokedKeys(l)
             THEN "inaccessible"
             ELSE LET raw_data == ProfileDecrypt(profile, keys[key_pair])
                  IN  IF raw_data # None /\ Matches(shard, filter, raw_data[1], profile, fetcher_id, l)
                      THEN "relevant"
                      ELSE "skipped"
        ELSE "inaccessible"

\* a loop body that does not skip the fetcher's own profile
VisitIncludingSelf(shard, filter, profile, keys, fetcher_id, l) ==
    LET key_pair == <<fetcher_id, profile.user_id>>
        reverse_key_pair == <<profile.user_id, fetcher_id>>
    IN  IF profile.is_deleted THEN "skipped"
        ELSE IF \/ <<fetcher_id, profile.user_id>> \in BlockedUsers(l)
                \/ <<profile.user_id, fetcher_id>> \in BlockedUsers(l) THEN "skipped"
        ELSE IF ReportedUsers(l, profile.user_id) >= REPORT_THRESHOLD THEN "skipped"
        ELSE IF key_pair \in DOMAIN keys
        THEN IF reverse_key_pair \in RevokedKeys(l) THEN "inaccessible"
             ELSE LET raw_data == ProfileDecrypt(profile, keys[key_pair])
                  IN  IF raw_data # None /\ Matches(shard, filter, raw_data[1], profile, fetcher_id, l)
                      THEN "relevant"
                      ELSE "skipped"
        ELSE "inaccessible"

\* one pass of `for profile in mock_profile_db`: where the candidate goes
Visit(shard, filter, profile, keys, fetcher_id, l) ==
    LET key_pair == <<fetcher_id, profile.user_id>>
        reverse_key_pair == <<profile.user_id, fetcher_id>>
    IN  IF profile.is_deleted \/ profile.user_id = fetcher_id THEN "skipped"
        ELSE IF \/ <<fetcher_id, profile.user_id>> \in BlockedUsers(l)
                \/ <<profile.user_id, fetcher_id>> \in BlockedUsers(l) THEN "skipped"
        ELSE IF ReportedUsers(l, profile.user_id) >= REPORT_THRESHOLD THEN "skipped"
        ELSE IF key_pair \in DOMAIN keys
        THEN IF reverse_key_pair \in RevokedKeys(l) THEN "inaccessible"
             ELSE LET raw_data == ProfileDecrypt(profile, keys[key_pair])
                  IN  IF raw_data # None /\ Matches(shard, filter, raw_data[1], profile, fetcher_id, l)
                      THEN "relevant"
                      ELSE "skipped"
        ELSE "inaccessible"

\* profiles_with_scores.sort_by(|a, b| b.1.cmp(&a.1)): stable, by score descending
RECURSIVE InsertByScore(_, _)
InsertByScore(sorted, entry) ==
    IF sorted = <<>> THEN <<entry>>
    ELSE IF sorted[1][2] >= entry[2] THEN <<sorted[1]>> \o InsertByScore(Tail(sorted), entry)
    ELSE <<entry>> \o sorted

RECURSIVE SortByScore(_)
SortByScore(entries) ==
    IF entries = <<>> THEN <<>>
    ELSE InsertByScore(SortByScore(SubSeq(entries, 1, Len(entries) - 1)), entries[Len(entries)])

\* a fetch that sorts by score whatever the filter
fetch_relevant_profiles_sorted(shard, filter, db, keys, fetcher_id, l) ==
    LET visited == [i \in 1..Len(db) |-> Visit(shard, filter, db[i], keys, fetcher_id, l)]
        index == [i \in 1..Len(db) |-> i]
        pushed(kind) == SelectSeq(index, LAMBDA i : visited[i] = kind)
        inaccessible_profiles ==
            [n \in 1..Len(pushed("inaccessible")) |-> db[pushed("inaccessible")[n]].user_id]
        profiles_with_scores ==
            [n \in 1..Len(pushed("relevant")) |->
                <<db[pushed("relevant")[n]],
                  calculate_interaction_score(shard, db[pushed("relevant")[n]].user_id)>>]
        sorted == SortByScore(profiles_with_scores)
    IN  [relevant_profiles |-> [n \in 1..Len(sorted) |-> sorted[n][1]],
         inaccessible_profiles |-> inaccessible_profiles]

fetch_relevant_profiles(shard, filter, db, keys, fetcher_id, l) ==
    LET visited == [i \in 1..Len(db) |-> Visit(shard, filter, db[i], keys, fetcher_id, l)]
        index == [i \in 1..Len(db) |-> i]
        pushed(kind) == SelectSeq(index, LAMBDA i : visited[i] = kind)
        inaccessible_profiles ==
            [n \in 1..Len(pushed("inaccessible")) |-> db[pushed("inaccessible")[n]].user_id]
        profiles_with_scores ==
            [n \in 1..Len(pushed("relevant")) |->
                <<db[pushed("relevant")[n]],
                  calculate_interaction_score(shard, db[pushed("relevant")[n]].user_id)>>]
        sorted == IF filter.min_score # None THEN SortByScore(profiles_with_scores)
                  ELSE profiles_with_scores
    IN  [relevant_profiles |-> [n \in 1..Len(sorted) |-> sorted[n][1]],
         inaccessible_profiles |-> inaccessible_profiles]

\* -------------------------------------------------------------------- states
\* the last call: its name, the calling shard's user, its arguments and what it
\* returned; a fetch also records the cache it replaced
Call(op, user_id, target_id, argument, returned) ==
    [op |-> op, user_id |-> user_id, target_id |-> target_id, argument |-> argument,
     returned |-> returned]

UserShardNew(user_id, profile) ==
    [user_id |-> user_id, interactions |-> <<>>, messages |-> <<>>, profile |-> profile,
     relevant_profiles |-> <<>>]

InitShards ==
    /\ clock = 0
    /\ shared_keys = MainSharedKeys
    /\ mock_profile_db = MainProfileDb
    /\ shards = [u \in Users |-> UserShardNew(u, DbProfile(MainProfileDb, u))]
    /\ retarget = NoRetarget
    /\ ops = 0
    /\ call = Call("new", "", "", <<>>, <<>>)
    /\ grants = [pair \in Users \X Users |-> "shared"]

\* main(): the demo's ledger
Init ==
    /\ ledger = GlobalLedgerNew(INITIAL_DIFFICULTY, MAX_DIFFICULTY, MIN_DIFFICULTY,
                                RInt(TARGET_BLOCK_TIME), ADJUSTMENT_INTERVAL,
                                MainMiners, 0)
    /\ in_force = <<RInt(INITIAL_DIFFICULTY)>>
    /\ InitShards
    /\ mining = None

\* main(): the demo's ledger with a roster of one miner
InitAccess ==
    /\ ledger = GlobalLedgerNew(INITIAL_DIFFICULTY, MAX_DIFFICULTY, MIN_DIFFICULTY,
                                RInt(TARGET_BLOCK_TIME), ADJUSTMENT_INTERVAL,
                                <<MainMiners[1]>>, 0)
    /\ in_force = <<RInt(INITIAL_DIFFICULTY)>>
    /\ InitShards
    /\ mining = None

\* GlobalLedger::new with any arguments
InitLedger ==
    /\ \E initial_difficulty \in 1..MaxDifficultyParam,
          max_difficulty \in 1..MaxDifficultyParam,
          min_difficulty \in 1..MaxMinDifficulty,
          target_block_time \in TargetBlockTimes,
          adjustment_interval \in 1..MaxInterval :
            /\ ledger = GlobalLedgerNew(initial_difficulty, max_difficulty, min_difficulty,
                                        target_block_time, adjustment_interval,
                                        <<MainMiners[1]>>, 0)
            /\ in_force = <<RInt(initial_difficulty)>>
    /\ InitShards
    /\ mining = None

\* ------------------------------------------------------------------- actions
\* ledger.add_block(transactions): the miner is drawn from the roster, the
\* duration is the wall time the mining took.
LedgerAddBlock(transactions, D) ==
    \E i \in 1..Len(ledger.miners), duration \in D :
        /\ ledger' = add_block(ledger, transactions, ledger.miners[i], duration, clock)
        /\ retarget' = RetargetLog(ledger, transactions, ledger.miners[i], duration, clock)
        /\ in_force' = Append(in_force, ledger.difficulty)
        /\ clock' = clock + AsUsize(duration)

KeyShareTx == new_key_share("alice", "bob", Encrypt(SymmetricKey["alice"], "secret_alice_bob", 1),
                            "2025-03-13", "keyshare_alice_bob")

AddBlock ==
    /\ Len(ledger.chain) <= MaxBlocks
    /\ LedgerAddBlock(<<KeyShareTx>>, ShardDurations)
    /\ call' = Call("add_block", "", "", <<KeyShareTx>>, <<>>)
    /\ UNCHANGED <<mining, shared_keys, mock_profile_db, shards, ops, grants>>

AddLedgerBlock ==
    /\ Len(ledger.chain) <= MaxLedgerBlocks
    /\ \E amount \in {5} :
         LedgerAddBlock(<<new_peace_transfer("system", "alice", amount, "2025-03-04", "tx001")>>,
                        Durations)
    /\ call' = Call("add_block", "", "", <<>>, <<>>)
    /\ UNCHANGED <<mining, shared_keys, mock_profile_db, shards, ops, grants>>

SetDeleted(db, u) ==
    [i \in 1..Len(db) |-> IF db[i].user_id = u THEN [db[i] EXCEPT !.is_deleted = TRUE] ELSE db[i]]

SetEncrypted(db, u, data) ==
    [i \in 1..Len(db) |-> IF db[i].user_id = u THEN [db[i] EXCEPT !.encrypted_data = data] ELSE db[i]]

ShardOpAllowed == Len(ledger.chain) <= MaxBlocks /\ ops < MaxShardOps

DeleteProfile(u) ==
    /\ ShardOpAllowed
    /\ shards' = [shards EXCEPT ![u].profile.is_deleted = TRUE]
    /\ mock_profile_db' = SetDeleted(mock_profile_db, u)
    /\ LedgerAddBlock(<<new_profile_deletion(u, "2025-03-07", "delete")>>, ShardDurations)
    /\ ops' = ops + 1
    /\ call' = Call("delete_profile", u, "", <<>>, <<>>)
    /\ UNCHANGED <<mining, shared_keys, grants>>

\* an update that leaves the profile database as it was
UpdateProfileShardOnly(u, new_data, key, nonce) ==
    /\ ShardOpAllowed
    /\ LET updated_encrypted_data == ProfileUpdate(shards[u].profile, new_data, key, nonce)
       IN  /\ shards' = [shards EXCEPT ![u].profile.encrypted_data = updated_encrypted_data]
           /\ mock_profile_db' = mock_profile_db
           /\ LedgerAddBlock(<<new_profile_update(u, updated_encrypted_data,
                                                  "2025-03-05", "update")>>, ShardDurations)
    /\ ops' = ops + 1
    /\ call' = Call("update_profile", u, "", <<new_data, key>>, <<>>)
    /\ UNCHANGED <<mining, shared_keys, grants>>

UpdateProfile(u, new_data, key, nonce) ==
    /\ ShardOpAllowed
    /\ LET updated_encrypted_data == ProfileUpdate(shards[u].profile, new_data, key, nonce)
       IN  /\ shards' = [shards EXCEPT ![u].profile.encrypted_data = updated_encrypted_data]
           /\ mock_profile_db' = SetEncrypted(mock_profile_db, u, updated_encrypted_data)
           /\ LedgerAddBlock(<<new_profile_update(u, updated_encrypted_data,
                                                  "2025-03-05", "update")>>, ShardDurations)
    /\ ops' = ops + 1
    /\ call' = Call("update_profile", u, "", <<new_data, key>>, <<>>)
    /\ UNCHANGED <<mining, shared_keys, grants>>

RemoveKey(keys, pair) == [p \in (DOMAIN keys) \ {pair} |-> keys[p]]
InsertKey(keys, pair, key) == [p \in (DOMAIN keys) \cup {pair} |-> IF p = pair THEN key ELSE keys[p]]

\* a revocation that removes the revoker's own entry for the target
RevokedEntryForward(u, target_id) == <<u, target_id>>

\* the key-store entry revoke_key removes
RevokedEntry(u, target_id) == <<target_id, u>>

RevokeKey(u, target_id) ==
    /\ ShardOpAllowed
    /\ shared_keys' = RemoveKey(shared_keys, RevokedEntry(u, target_id))
    /\ LedgerAddBlock(<<new_key_revocation(u, target_id, "2025-03-08", "revoke")>>,
                      ShardDurations)
    /\ ops' = ops + 1
    /\ call' = Call("revoke_key", u, target_id, <<>>, <<>>)
    /\ grants' = [grants EXCEPT ![<<u, target_id>>] = "revoked"]
    /\ UNCHANGED <<mining, mock_profile_db, shards>>

\* transactions.retain(..) of the sweep
RECURSIVE Retain(_, _)
Retain(transactions, pair) ==
    IF transactions = <<>> THEN <<>>
    ELSE LET tx == transactions[1]
             keep == tx.transaction_type # "KeyRevocation" \/ tx.revoked_key_pair # Some(pair)
         IN  (IF keep THEN <<tx>> ELSE <<>>) \o Retain(Tail(transactions), pair)

\* a sweep that leaves every transaction in place
SweepNothing(chain, pair) == chain

SweepChain(chain, pair) ==
    [i \in 1..Len(chain) |->
        [chain[i] EXCEPT !.transactions = Retain(@, pair)]]

\* main(): alice's key is stored again for bob and the chain is swept of
\* alice's revocations of bob
\* a key stored again after a revocation counts as a re-share
Reshared(g, holder, subject) ==
    [g EXCEPT ![<<subject, holder>>] = IF @ = "revoked" THEN "reshared" ELSE @]

\* a key stored again after a revocation, with the chain swept of that revocation
Swept(g, holder, subject) ==
    [g EXCEPT ![<<subject, holder>>] = IF @ \in {"revoked", "reshared"} THEN "swept" ELSE @]

ReshareSweep ==
    /\ shared_keys' = InsertKey(shared_keys, <<"bob", "alice">>, SymmetricKey["alice"])
    /\ ledger' = [ledger EXCEPT !.chain = SweepChain(@, <<"alice", "bob">>)]
    /\ call' = Call("sweep", "alice", "bob", <<>>, <<>>)
    /\ grants' = Swept(grants, "bob", "alice")
    /\ UNCHANGED <<mining, clock, mock_profile_db, shards, retarget, in_force, ops>>

\* main(): the subject's profile key is stored for the holder, without a sweep
ShareKey(holder, subject) ==
    /\ shared_keys' = InsertKey(shared_keys, <<holder, subject>>, SymmetricKey[subject])
    /\ call' = Call("insert", subject, holder, <<>>, <<>>)
    /\ grants' = Reshared(grants, holder, subject)
    /\ UNCHANGED <<mining, ledger, clock, mock_profile_db, shards, retarget, in_force, ops>>

\* a fetch that pushes onto the cache it finds
FetchAppending(u, filter) ==
    LET fetched == fetch_relevant_profiles(shards[u], filter, mock_profile_db, shared_keys,
                                           u, ledger)
    IN  /\ shards' = [shards EXCEPT ![u].relevant_profiles = @ \o fetched.relevant_profiles]
        /\ call' = Call("fetch_relevant_profiles", u, "", filter, fetched.inaccessible_profiles)
                      @@ [replaced |-> shards[u].relevant_profiles]
        /\ UNCHANGED <<mining, ledger, clock, shared_keys, mock_profile_db, retarget, in_force, ops,
                       grants>>

\* a fetch that also drops the key-store entries of the candidates it lists
FetchPruningKeys(u, filter) ==
    LET fetched == fetch_relevant_profiles(shards[u], filter, mock_profile_db, shared_keys,
                                           u, ledger)
    IN  /\ shared_keys' = [pair \in {q \in DOMAIN shared_keys :
                                         q[1] # u \/ q[2] \notin Range(fetched.inaccessible_profiles)}
                                 |-> shared_keys[pair]]
        /\ shards' = [shards EXCEPT ![u].relevant_profiles = fetched.relevant_profiles]
        /\ call' = Call("fetch_relevant_profiles", u, "", filter, fetched.inaccessible_profiles)
                      @@ [replaced |-> shards[u].relevant_profiles]
        /\ UNCHANGED <<mining, ledger, clock, mock_profile_db, retarget, in_force, ops,
                       grants>>

\* shard u fetches for itself, as main() calls it
Fetch(u, filter) ==
    LET fetched == fetch_relevant_profiles(shards[u], filter, mock_profile_db, shared_keys,
                                           u, ledger)
    IN  /\ shards' = [shards EXCEPT ![u].relevant_profiles = fetched.relevant_profiles]
        /\ call' = Call("fetch_relevant_profiles", u, "", filter, fetched.inaccessible_profiles)
                      @@ [replaced |-> shards[u].relevant_profiles]
        /\ UNCHANGED <<mining, ledger, clock, shared_keys, mock_profile_db, retarget, in_force, ops,
                       grants>>


Next ==
    \/ AddBlock
    \/ \E u \in Users : DeleteProfile(u)
    \/ \E u \in Users, key \in Keys : UpdateProfile(u, UpdatedData, key, 2)
    \/ \E u \in Users, target_id \in Users : RevokeKey(u, target_id)
    \/ ReshareSweep

NextLedger == AddLedgerBlock

\* a fetch's inputs: the demo's four profiles (charlie deleted or not), a key
\* store and the shards' interactions
InitFetch ==
    /\ ledger = GlobalLedgerNew(INITIAL_DIFFICULTY, MAX_DIFFICULTY, MIN_DIFFICULTY,
                                RInt(TARGET_BLOCK_TIME), ADJUSTMENT_INTERVAL,
                                <<MainMiners[1]>>, 0)
    /\ in_force = <<RInt(INITIAL_DIFFICULTY)>>
    /\ clock = 0
    /\ \/ shared_keys = FullSharedKeys /\ mock_profile_db = FullProfileDb
       \/ shared_keys = StaleSharedKeys /\ mock_profile_db = SetDeleted(FullProfileDb, "charlie")
    /\ shards = [u \in Users |->
                  [UserShardNew(u, DbProfile(FullProfileDb, u))
                      EXCEPT !.interactions = ScoredInteractions]]
    /\ retarget = NoRetarget
    /\ ops = 0
    /\ call = Call("new", "", "", <<>>, <<>>)
    /\ grants = [pair \in Users \X Users |-> "shared"]
    /\ mining = None

\* transactions handed to add_block, one vector per block: those of main(), and
\* blocks naming the fetcher alice in each direction
report_tx1 == new_report_user("alice", "charlie", "spam", "2025-03-11", "report_alice_charlie")
report_tx2 == new_report_user("bob", "charlie", "harassment", "2025-03-12", "report_bob_charlie")
block_tx == new_block_user("alice", "charlie", "2025-03-09", "block_alice_charlie")
block_back_tx == new_block_user("diana", "alice", "2025-03-09", "block_diana_alice")
match_tx == new_match("alice", "bob", "2025-03-06", "match_alice_bob")
revocation_tx == new_key_revocation("bob", "alice", "2025-03-08", "revoke_bob_alice")
OtherTransactions ==
    <<new_like("alice", "bob", "2025-03-06", "like_alice_bob"),
      new_message("alice", "bob", "Hi Bob!", "secret_alice_bob", 1, "2025-03-06", "msg_alice_bob_1"),
      new_photo_share("alice", "bob", "photo.jpg", "secret_alice_bob", 2, "2025-03-07", "photo_alice_bob"),
      new_video_call("bob", "alice", 600, "2025-03-10", "videocall_bob_alice"),
      new_peace_transfer("system", "alice", 5, "2025-03-04", "tx001"),
      KeyShareTx,
      new_profile_update("alice", ProfileUpdate(MainProfileDb[2], UpdatedData, SymmetricKey["alice"], 2),
                         "2025-03-05", "update"),
      new_profile_deletion("charlie", "2025-03-07", "delete")>>
Batches ==
    {<<report_tx1>>, <<report_tx2>>, <<block_tx>>, <<block_back_tx>>, <<match_tx>>,
     <<revocation_tx>>, OtherTransactions}

AddTransactions(transactions) ==
    /\ Len(ledger.chain) <= MaxFetchBlocks
    /\ LedgerAddBlock(transactions, ShardDurations)
    /\ call' = Call("add_block", "", "", transactions, <<>>)
    /\ UNCHANGED <<mining, shared_keys, mock_profile_db, shards, ops, grants>>

\* shared_keys.remove(&(holder, subject)) on an entry the store holds
DropKey(holder, subject) ==
    /\ <<holder, subject>> \in DOMAIN shared_keys
    /\ shared_keys' = RemoveKey(shared_keys, <<holder, subject>>)
    /\ call' = Call("remove", subject, holder, <<>>, <<>>)
    /\ UNCHANGED <<mining, ledger, clock, mock_profile_db, shards, retarget, in_force, ops, grants>>

NextFetch ==
    \/ \E transactions \in Batches : AddTransactions(transactions)
    \/ \E subject \in {"bob", "diana"} : DropKey("alice", subject)
    \/ \E filter \in FetchFilters : Fetch("alice", filter)

NextAccess ==
    \/ AddBlock
    \/ \E u \in Users : DeleteProfile(u)
    \/ \E u \in Users, key \in Keys : UpdateProfile(u, UpdatedData, key, 2)
    \/ \E u \in Users, target_id \in Users : RevokeKey(u, target_id)
    \/ ReshareSweep
    \/ \E holder \in Users : \E subject \in Users \ {holder} : ShareKey(holder, subject)
    \/ \E u \in Users, filter \in Filters : Fetch(u, filter)

\* ------------------------------------------------------- the mining loop
\* Miner::new with the demo's mining powers, one below 0.001 and zero
MinePowers == {<<1, 1>>, <<3, 2>>, <<7, 10>>, <<1, 2000>>, <<0, 1>>}

\* block.nonce += increment on a counter of NonceBits bits
WrappingAdd(nonce, increment) == (nonce + increment) % (2 ^ NonceBits)

\* the leading zero counts a hash can show; those above the largest
\* difficulty count as the largest
HashOutcomes == 0..MAX_DIFFICULTY

\* block.compute_hash() inside the loop: the hash of the fields last hashed
\* is the hash found then, the hash over another nonce is any outcome
Recomputed(m) ==
    IF m.hash # None /\ m.nonce = m.hashed_nonce THEN {m.hash[1]} ELSE HashOutcomes

\* GlobalBlock::new has built the block (nonce 0, no hash yet) and calls
\* miner.mine_block(&mut block, difficulty)
InitMine ==
    /\ ledger = GlobalLedgerNew(INITIAL_DIFFICULTY, MAX_DIFFICULTY, MIN_DIFFICULTY,
                                RInt(TARGET_BLOCK_TIME), ADJUSTMENT_INTERVAL,
                                MainMiners, 0)
    /\ in_force = <<RInt(INITIAL_DIFFICULTY)>>
    /\ InitShards
    /\ \E mining_power \in MinePowers, difficulty \in MIN_DIFFICULTY..MAX_DIFFICULTY :
          mining = [miner |-> Miner("Miner", mining_power), difficulty |-> difficulty,
                    nonce |-> 0, hash |-> None, hashed_nonce |-> 0, returned |-> FALSE]

\* one pass of the loop that ends in `break`
MineHit ==
    /\ mining # None /\ ~mining.returned
    /\ \E zeros \in Recomputed(mining) :
          /\ StartsWithZeros([zeros |-> zeros], mining.difficulty)
          /\ mining' = [mining EXCEPT !.hash = Some(zeros), !.hashed_nonce = mining.nonce,
                                      !.returned = TRUE]
    /\ UNCHANGED <<ledger, clock, shared_keys, mock_profile_db, shards, retarget, in_force, ops,
                   call, grants>>

\* one pass of the loop that ends in `block.nonce += increment`
MineMiss ==
    /\ mining # None /\ ~mining.returned
    /\ \E zeros \in Recomputed(mining) :
          /\ ~StartsWithZeros([zeros |-> zeros], mining.difficulty)
          /\ mining' = [mining EXCEPT !.hash = Some(zeros), !.hashed_nonce = mining.nonce,
                                      !.nonce = WrappingAdd(@, Increment(mining.miner))]
    /\ UNCHANGED <<ledger, clock, shared_keys, mock_profile_db, shards, retarget, in_force, ops,
                   call, grants>>

NextMine == MineHit \/ MineMiss

\* ----------------------------------------------------------- the miner roster
\* the rosters a caller can hand to GlobalLedger::new: none, the demo's, and a
\* miner of power 1.0625, whose stride 1062.5 has a fraction
Rosters == {<<>>, <<MainMiners[1]>>, MainMiners, <<Miner("Miner4", <<17, 16>>)>>}

\* the process has aborted in the call named by the argument
Panic(op) ==
    /\ call' = Call("panic", "", "", op, <<>>)
    /\ UNCHANGED <<ledger, clock, shared_keys, mock_profile_db, shards, retarget, in_force, ops,
                   grants, mining>>
Panicked == call.op = "panic"

\* before GlobalLedger::new, or with a ledger value whose miners field (a plain
\* Vec) holds no miner
InitRoster ==
    /\ \/ ledger = None /\ in_force = <<>>
       \/ /\ ledger = [GlobalLedgerNew(INITIAL_DIFFICULTY, MAX_DIFFICULTY, MIN_DIFFICULTY,
                                        RInt(TARGET_BLOCK_TIME), ADJUSTMENT_INTERVAL,
                                        MainMiners, 0) EXCEPT !.miners = <<>>]
          /\ in_force = <<RInt(INITIAL_DIFFICULTY)>>
    /\ InitShards
    /\ mining = None

\* GlobalLedger::new(.., miners): `&miners[0]` comes first
LedgerNew(miners) ==
    /\ ledger = None /\ ~Panicked
    /\ IF miners = <<>>
       THEN Panic("new")
       ELSE /\ ledger' = GlobalLedgerNew(INITIAL_DIFFICULTY, MAX_DIFFICULTY, MIN_DIFFICULTY,
                                         RInt(TARGET_BLOCK_TIME), ADJUSTMENT_INTERVAL,
                                         miners, clock)
            /\ in_force' = <<RInt(INITIAL_DIFFICULTY)>>
            /\ call' = Call("new", "", "", <<>>, <<>>)
            /\ UNCHANGED <<clock, shared_keys, mock_profile_db, shards, retarget, ops, grants,
                           mining>>

\* an add_block that records a duration before it looks for a miner
RosterAddBlockRecording(transactions) ==
    /\ ledger # None /\ ~Panicked
    /\ Len(ledger.chain) <= MaxLedgerBlocks
    /\ IF ledger.miners = <<>>
       THEN /\ ledger' = [ledger EXCEPT !.mining_durations = Append(@, RInt(0))]
            /\ call' = Call("panic", "", "", "add_block", <<>>)
            /\ UNCHANGED <<clock, shared_keys, mock_profile_db, shards, retarget, in_force, ops,
                           grants, mining>>
       ELSE /\ LedgerAddBlock(transactions, Durations)
            /\ call' = Call("add_block", "", "", transactions, <<>>)
            /\ UNCHANGED <<mining, shared_keys, mock_profile_db, shards, ops, grants>>

\* ledger.add_block(transactions): `self.miners.choose(..).expect(..)` comes
\* before the first write
RosterAddBlock(transactions) ==
    /\ ledger # None /\ ~Panicked
    /\ Len(ledger.chain) <= MaxLedgerBlocks
    /\ IF ledger.miners = <<>>
       THEN Panic("add_block")
       ELSE /\ LedgerAddBlock(transactions, Durations)
            /\ call' = Call("add_block", "", "", transactions, <<>>)
            /\ UNCHANGED <<mining, shared_keys, mock_profile_db, shards, ops, grants>>

NextRoster ==
    \/ \E miners \in Rosters : LedgerNew(miners)
    \/ RosterAddBlock(<<KeyShareTx>>)

Spec == Init /\ [][Next]_vars
SpecLedger == InitLedger /\ [][NextLedger]_vars
SpecAccess == InitAccess /\ [][NextAccess]_vars
SpecFetch == InitFetch /\ [][NextFetch]_vars
\* the loop keeps running while it has not returned, and a hash that can match
\* over and over does match at some pass
SpecMine == InitMine /\ [][NextMine]_vars /\ WF_vars(NextMine) /\ SF_vars(MineHit)
SpecRoster == InitRoster /\ [][NextRoster]_vars

\* ==================================================================== claims
Chain == ledger.chain
Appended1 == Len(ledger.chain) - 1     \* blocks appended by add_block

\* C1: every block at index i > 0 has previous_hash equal to the stored hash
\* of the block before it, whatever add_block, update_profile,
\* delete_profile and revoke_key calls (and sweeps) were made.
C1_ChainLinked ==
    \A i \in 2..Len(Chain) : Chain[i].previous_hash = Chain[i - 1].hash

\* a chain of three blocks, built in part by shard operations
C1_Witness ==
    /\ Len(Chain) >= 3
    /\ ops >= 1
    /\ Chain[3].previous_hash = Chain[2].hash
    /\ Chain[2].hash # Chain[1].hash

\* C2: every block's stored hash equals the hash recomputed from its stored
\* transactions, previous_hash, nonce and timestamp, and starts with
\* floor(d) zero hex digits, d the difficulty in force when it was mined.
C2_HashesValid ==
    \A i \in 1..Len(Chain) :
        /\ Chain[i].hash = compute_hash(Chain[i])
        /\ Chain[i].hash.zeros >= in_force[i][1] \div in_force[i][2]

\* C10: the chain is never empty and block 0 is the genesis block of the
\* constructor: the one fixed PeaceTransfer, previous_hash "0", mined by the
\* first miner of the roster at the initial difficulty; construction records
\* no duration, sets no EMA and runs no retarget.
C10_Genesis ==
    /\ Len(Chain) >= 1
    /\ Len(Chain[1].transactions) = 1
    /\ LET tx == Chain[1].transactions[1]
       IN  /\ tx.transaction_type = "PeaceTransfer"
           /\ tx.sender_id = "system" /\ tx.receiver_id = "genesis"
           /\ tx.amount = <<0>>
           /\ tx.timestamp = "2025-03-04" /\ tx.global_tx_id = "genesis_tx"
    /\ Chain[1].previous_hash = [zeros |-> 1, pre |-> <<>>]
    /\ Chain[1].miner_name = ledger.miners[1].name
    /\ Chain[1].hash.zeros >= in_force[1][1] \div in_force[1][2]
    /\ Len(Chain) = 1 =>
          /\ ledger.mining_durations = <<>>
          /\ ledger.ema_block_time = <<>>
          /\ ledger.difficulty = in_force[1]
          /\ ~retarget.called

\* the genesis block under a chain that grew, was retargeted and was swept
C10_Witness ==
    /\ Len(Chain) >= 3
    /\ retarget.called
    /\ Chain[1].miner_name = "Miner1"
    /\ <<"bob", "alice">> \in DOMAIN shared_keys
    /\ \E i \in 2..Len(Chain) : Chain[i].transactions = <<>>

\* ------------------------------------------------- retargeting (SpecLedger)
Difficulty == ledger.difficulty
Target == ledger.target_block_time
MinD == RInt(ledger.min_difficulty)
MaxD == RInt(ledger.max_difficulty)
Avg == retarget.avg[1]
\* the difficulty the last add_block started from
Old == in_force[Len(in_force)]
\* a/b < c/d and a/b <= c/d on lowest-terms pairs
Less(a, b) == a[1] * b[2] < b[1] * a[2]
Same(a, b) == a[1] * b[2] = b[1] * a[2]
AtMost(a, b) == Less(a, b) \/ Same(a, b)
\* avg < 0.5 * target, avg > 1.5 * target
Fast(avg) == 2 * avg[1] * Target[2] < Target[1] * avg[2]
Slow(avg) == 2 * avg[1] * Target[2] > 3 * Target[1] * avg[2]
\* old * target / avg, in lowest terms
Scaled ==
    LET n == Old[1] * Target[1] * Avg[2]
        d == Old[2] * Target[2] * Avg[1]
    IN  <<n \div GCD(n, d), d \div GCD(n, d)>>

InBounds == AtMost(MinD, Difficulty) /\ AtMost(Difficulty, MaxD)

\* C3 as stated: for any constructor arguments the difficulty is within
\* [min_difficulty, max_difficulty] in every reachable state.
C3_Original == InBounds

\* C3 amended: if min_difficulty <= initial_difficulty <= max_difficulty then
\* the difficulty is within [min_difficulty, max_difficulty] in every
\* reachable state.
C3_InBounds ==
    (AtMost(MinD, in_force[1]) /\ AtMost(in_force[1], MaxD)) => InBounds

\* a retarget has clamped a well-constructed ledger's difficulty to the maximum
C3_Witness ==
    /\ AtMost(MinD, in_force[1]) /\ AtMost(in_force[1], MaxD)
    /\ retarget.compared /\ Fast(Avg)
    /\ Less(MaxD, Scaled)
    /\ Difficulty = MaxD
    /\ Difficulty # Old

\* C4: a retarget that evaluates avg < 0.5 * target sets the difficulty to
\* min(old * target / avg, max_difficulty); one that evaluates
\* avg > 1.5 * target sets it to max(old * target / avg, min_difficulty).
C4_Scaling ==
    retarget.compared =>
        /\ Fast(Avg) => IF Less(MaxD, Scaled) THEN Difficulty = MaxD
                                              ELSE Difficulty = Scaled
        /\ Slow(Avg) => IF Less(Scaled, MinD) THEN Difficulty = MinD
                                              ELSE Difficulty = Scaled

\* a retarget that scaled the difficulty up without reaching the maximum
C4_Witness ==
    /\ retarget.compared /\ Fast(Avg)
    /\ Less(Scaled, MaxD)
    /\ Difficulty = Scaled
    /\ Difficulty # Old

\* C5: a retarget that evaluates an average inside
\* [0.5 * target, 1.5 * target], bounds included, leaves the difficulty
\* unchanged; a retarget never changes the chain, the duration history or
\* the EMA that add_block has just written.
C5_BandAndFrame ==
    [][(Len(ledger'.chain) = Len(ledger.chain) + 1 /\ retarget'.called) =>
         /\ (retarget'.compared /\ ~Fast(retarget'.avg[1]) /\ ~Slow(retarget'.avg[1]))
               => ledger'.difficulty = ledger.difficulty
         /\ SubSeq(ledger'.chain, 1, Len(ledger.chain)) = ledger.chain
         /\ ledger'.chain[Len(ledger'.chain)].hash.pre[2] = ledger.chain[Len(ledger.chain)].hash
         /\ Len(ledger'.mining_durations) = Len(ledger.mining_durations) + 1
         /\ SubSeq(ledger'.mining_durations, 1, Len(ledger.mining_durations))
               = ledger.mining_durations
         /\ ledger'.ema_block_time # <<>>
         /\ ledger.ema_block_time = <<>> =>
               ledger'.ema_block_time[1] = ledger'.mining_durations[Len(ledger'.mining_durations)]
       ]_vars

\* a retarget evaluated an average exactly on the lower bound of the band
C5_Witness ==
    /\ retarget.compared
    /\ 2 * Avg[1] * Target[2] = Target[1] * Avg[2]
    /\ Difficulty = Old
    /\ Less(Difficulty, MaxD)

\* C6 as stated: the retarget runs, comparing the EMA against the band,
\* exactly after the k-th, 2k-th, 3k-th ... appended block.
C6_Original ==
    Appended1 >= 1 => (retarget.compared <=> Appended1 % ledger.adjustment_interval = 0)

\* C6 amended: adjust_difficulty is called after an add_block exactly when
\* the chain length, genesis block included, is a multiple of k (so after
\* the (k-1)-th, (2k-1)-th ... appended block, and after every block when
\* k = 1); it compares the EMA against the band exactly when it is called
\* with k >= 2 and at least two recorded durations.
C6_Interval ==
    Appended1 >= 1 =>
        /\ retarget.called <=> Len(Chain) % ledger.adjustment_interval = 0
        /\ retarget.compared <=>
              /\ retarget.called
              /\ ledger.adjustment_interval >= 2
              /\ Len(ledger.mining_durations) >= 2
        /\ retarget.compared => retarget.avg = ledger.ema_block_time

\* with k = 3 the retarget has run after the second appended block
C6_Witness ==
    /\ ledger.adjustment_interval = 3
    /\ Appended1 = 2
    /\ retarget.compared
    /\ Difficulty # Old

\* ------------------------------------------- the demo's scenario (SpecLedger)
\* difficulty 3, max 4, min 1, target block time 5 s, adjustment interval 3
MainConfig ==
    /\ in_force[1] = <<INITIAL_DIFFICULTY, 1>>
    /\ ledger.max_difficulty = MAX_DIFFICULTY
    /\ ledger.min_difficulty = MIN_DIFFICULTY
    /\ Target = <<TARGET_BLOCK_TIME, 1>>
    /\ ledger.adjustment_interval = ADJUSTMENT_INTERVAL

D(i) == ledger.mining_durations[i]
\* three blocks appended; their durations are whole seconds here
ThreeAppended == MainConfig /\ Appended1 = 3
SumOfThree == D(1)[1] + D(2)[1] + D(3)[1]

Raised == Less(<<3, 1>>, Difficulty) /\ AtMost(Difficulty, <<4, 1>>)
Lowered == Less(Difficulty, <<3, 1>>) /\ AtMost(<<1, 1>>, Difficulty)

\* C7 as stated: after 3 appended blocks whose durations average less than
\* 2.5 s the difficulty is strictly greater than 3 and at most 4.
C7_Original == (ThreeAppended /\ 2 * SumOfThree < 15) => Raised

\* C7 amended: after 3 appended blocks each mined in less than 2.5 s the
\* difficulty is strictly greater than 3 and at most 4.
C7_FastBlocksRaise ==
    (ThreeAppended /\ \A i \in 1..3 : 2 * D(i)[1] < 5 * D(i)[2]) => Raised

\* three fast blocks: the retarget after the second one has raised the difficulty
C7_Witness ==
    /\ ThreeAppended
    /\ \A i \in 1..3 : 2 * D(i)[1] < 5 * D(i)[2]
    /\ in_force[3] = <<3, 1>>
    /\ in_force[4] = <<4, 1>>
    /\ Difficulty = <<4, 1>>

\* C8 as stated: after 3 appended blocks whose durations average more than
\* 7.5 s the difficulty is strictly less than 3 and at least 1.
C8_Original == (ThreeAppended /\ 2 * SumOfThree > 45) => Lowered

\* C8 amended: after 3 appended blocks each mined in more than 7.5 s the
\* difficulty is strictly less than 3 and at least 1.
C8_SlowBlocksLower ==
    (ThreeAppended /\ \A i \in 1..3 : 2 * D(i)[1] > 15 * D(i)[2]) => Lowered

\* three slow blocks: the retarget after the second one has lowered the difficulty
C8_Witness ==
    /\ ThreeAppended
    /\ \A i \in 1..3 : 2 * D(i)[1] > 15 * D(i)[2]
    /\ in_force[3] = <<3, 1>>
    /\ in_force[4] = Difficulty
    /\ Difficulty = <<3, 2>>

\* C9: the EMA is unset on a fresh ledger; the first add_block sets it to
\* that block's duration, every later add_block with duration d sets it to
\* 0.3 * d + 0.7 * (previous EMA), once, and a retarget of the same call
\* evaluates the EMA so updated.
C9_Ema ==
    [][/\ Len(ledger.chain) = 1 => ledger.ema_block_time = <<>>
       /\ Len(ledger'.chain) = Len(ledger.chain) + 1 =>
            LET d == ledger'.mining_durations[Len(ledger'.mining_durations)]
                e == ledger.ema_block_time[1]
                n == 3 * d[1] * e[2] + 7 * e[1] * d[2]
                m == 10 * d[2] * e[2]
            IN  /\ ledger.ema_block_time = <<>> => ledger'.ema_block_time = <<d>>
                /\ ledger.ema_block_time # <<>> =>
                      ledger'.ema_block_time = <<<<n \div GCD(n, m), m \div GCD(n, m)>>>>
                /\ retarget'.compared => retarget'.avg = ledger'.ema_block_time
      ]_vars

\* an EMA that has smoothed two different durations and was evaluated by a retarget
C9_Witness ==
    /\ Appended1 = 2
    /\ D(1) = <<3, 1>> /\ D(2) = <<1, 1>>
    /\ ledger.ema_block_time = <<<<12, 5>>>>
    /\ retarget.compared /\ Avg = <<12, 5>>


\* ----------------------------------------------------- shard calls and access
AddingCalls == {"add_block", "update_profile", "delete_profile", "revoke_key"}
ChainNext == ledger'.chain

\* C11: the chain is append-only: each add_block lengthens the chain by
\* exactly one block, and every block already in the chain keeps its
\* transactions, previous_hash, nonce, hash, timestamp and miner whatever
\* operation comes later.
C11_AppendOnly ==
    [][/\ SubSeq(ChainNext, 1, Len(Chain)) = Chain
       /\ call'.op \in AddingCalls => Len(ChainNext) = Len(Chain) + 1
       /\ call'.op \notin AddingCalls => Len(ChainNext) = Len(Chain)]_vars

ShardCalls == {"update_profile", "delete_profile", "revoke_key"}
KindOf(op) ==
    CASE op = "update_profile" -> "ProfileUpdate"
      [] op = "delete_profile" -> "ProfileDeletion"
      [] op = "revoke_key" -> "KeyRevocation"

\* C12: each update_profile, delete_profile or revoke_key call appends
\* exactly one block, holding exactly one transaction, of kind ProfileUpdate,
\* ProfileDeletion or KeyRevocation respectively, whose sender is the calling
\* shard's user.
C12_OneBlockPerCall ==
    [][call'.op \in ShardCalls =>
          /\ Len(ChainNext) = Len(Chain) + 1
          /\ Len(Last(ChainNext).transactions) = 1
          /\ Last(ChainNext).transactions[1].transaction_type = KindOf(call'.op)
          /\ Last(ChainNext).transactions[1].sender_id = call'.user_id]_vars

\* alice has just revoked bob's grant: the new block holds her revocation
C12_Witness ==
    /\ call.op = "revoke_key" /\ call.user_id = "alice" /\ call.target_id = "bob"
    /\ Len(Chain) >= 3
    /\ Last(Chain).transactions = <<new_key_revocation("alice", "bob", "2025-03-08", "revoke")>>
    /\ \E i \in 2..Len(Chain) - 1 : Chain[i].transactions[1].transaction_type = "ProfileUpdate"

\* C13: revoke_key by revoker R with target T removes exactly the key-store
\* entry (T, R), if present, and leaves every other entry as it was:
\* (R, T), and (R, R) and (T, T) when T differs from R.
C13_RevokeRemovesOneEntry ==
    [][call'.op = "revoke_key" =>
          /\ DOMAIN shared_keys' = (DOMAIN shared_keys) \ {<<call'.target_id, call'.user_id>>}
          /\ \A pair \in DOMAIN shared_keys' : shared_keys'[pair] = shared_keys[pair]]_vars

\* alice has just revoked bob: (bob, alice) is gone, the other three remain
C13_Witness ==
    /\ call.op = "revoke_key" /\ call.user_id = "alice" /\ call.target_id = "bob"
    /\ DOMAIN shared_keys = {<<"alice", "bob">>, <<"alice", "alice">>, <<"bob", "bob">>}
    /\ \A pair \in DOMAIN shared_keys : shared_keys[pair] = MainSharedKeys[pair]

\* ------------------------------------------------------------------ fetches
Fetched == call.op = "fetch_relevant_profiles"
FetchedNext == call'.op = "fetch_relevant_profiles"
Fetcher == call'.user_id
ListedInaccessible(u) == u \in Range(call'.returned)
ListedRelevant(u) == \E i \in 1..Len(shards'[Fetcher].relevant_profiles) : shards'[Fetcher].relevant_profiles[i].user_id = u

\* u's profile is among the candidates, not deleted, not blocked in either
\* direction and under the report threshold
Eligible(u, fetcher_id) ==
    /\ u # fetcher_id
    /\ \E i \in 1..Len(mock_profile_db) :
          mock_profile_db[i].user_id = u /\ ~mock_profile_db[i].is_deleted
    /\ <<u, fetcher_id>> \notin BlockedUsers(ledger)
    /\ <<fetcher_id, u>> \notin BlockedUsers(ledger)
    /\ ReportedUsers(ledger, u) < REPORT_THRESHOLD

\* C14: after revoke_key by A with target B, and for as long as A's key has
\* not been stored again for B, every fetch by B whose candidates hold A's
\* non-deleted, non-blocked, under-threshold profile lists A as inaccessible
\* and keeps A out of relevant_profiles.
C14_RevokedIsInaccessible ==
    [][FetchedNext =>
          \A A \in Users :
              (grants[<<A, Fetcher>>] = "revoked" /\ Eligible(A, Fetcher))
                  => ListedInaccessible(A) /\ ~ListedRelevant(A)]_vars

\* bob has fetched after alice revoked him: alice is listed inaccessible
C14_Witness ==
    /\ Fetched /\ call.user_id = "bob"
    /\ grants[<<"alice", "bob">>] = "revoked"
    /\ ~DbProfile(mock_profile_db, "alice").is_deleted
    /\ call.returned = <<"alice">>
    /\ shards["bob"].relevant_profiles = <<>>

Restored == {"reshared", "swept"}

\* what u's stored profile says, and whether it passes the filter of the fetch
Plaintext(u) == Deserialize(DbProfile(mock_profile_db, u).encrypted_data.plaintext)[1]
Satisfies(u) ==
    Matches(shards[Fetcher], call'.argument, Plaintext(u), DbProfile(mock_profile_db, u),
            Fetcher, ledger)
DecryptsForFetcher(u) ==
    /\ <<Fetcher, u>> \in DOMAIN shared_keys
    /\ ProfileDecrypt(DbProfile(mock_profile_db, u), shared_keys[<<Fetcher, u>>]) # None

\* C15 as stated: after revoke_key by A with target B, once A's key is stored
\* again under (B, A), the next fetch by B does not list A as inaccessible
\* and includes A when A's profile satisfies the filter.
C15_Original ==
    [][FetchedNext =>
          \A A \in Users :
              (grants[<<A, Fetcher>>] \in Restored /\ Eligible(A, Fetcher))
                  => /\ ~ListedInaccessible(A)
                     /\ Satisfies(A) => ListedRelevant(A)]_vars

\* C15: after revoke_key by A with target B and the key stored again under
\* (B, A), a fetch by B still lists A as inaccessible while a KeyRevocation
\* (A, B) is in the chain; once the chain holds none, the fetch does not
\* list A as inaccessible and includes A when A's profile decrypts under the
\* stored key and satisfies the filter.
C15_ReshareNeedsCleanChain ==
    [][FetchedNext =>
          \A A \in Users :
              (grants[<<A, Fetcher>>] \in Restored /\ Eligible(A, Fetcher))
                  => IF <<A, Fetcher>> \in RevokedKeys(ledger)
                     THEN ListedInaccessible(A) /\ ~ListedRelevant(A)
                     ELSE /\ ~ListedInaccessible(A)
                          /\ (DecryptsForFetcher(A) /\ Satisfies(A)) => ListedRelevant(A)]_vars

\* bob fetches after alice's revocation, the re-share and the sweep: alice
\* is back in his relevant profiles
C15_Witness ==
    /\ Fetched /\ call.user_id = "bob"
    /\ grants[<<"alice", "bob">>] = "swept"
    /\ <<"alice", "bob">> \notin RevokedKeys(ledger)
    /\ call.returned = <<>>
    /\ Len(shards["bob"].relevant_profiles) = 1
    /\ shards["bob"].relevant_profiles[1].user_id = "alice"

\* C16: after revoke_key by alice with target bob, a KeyShare block from
\* alice to bob, the re-insertion of alice's key under (bob, alice) and the
\* sweep of every KeyRevocation (alice, bob) from the chain, a fetch by bob
\* does not list alice as inaccessible.
C16_SweepUnblocks ==
    [][(FetchedNext /\ Fetcher = "bob" /\ grants[<<"alice", "bob">>] = "swept")
          => ~ListedInaccessible("alice")]_vars

\* the whole sequence has run: the revocation block is emptied, a KeyShare
\* block follows it, and bob's fetch shows alice
C16_Witness ==
    /\ Fetched /\ call.user_id = "bob"
    /\ grants[<<"alice", "bob">>] = "swept"
    /\ Len(Chain) = 3
    /\ Chain[2].transactions = <<>>
    /\ Chain[3].transactions = <<KeyShareTx>>
    /\ call.returned = <<>>
    /\ Len(shards["bob"].relevant_profiles) = 1

\* C17: once a user U holds their own profile key under (U, U), no
\* revoke_key, update_profile, delete_profile, add_block or
\* fetch_relevant_profiles call removes or changes that entry.
C17_SelfAccess ==
    [][\A U \in Users :
          <<U, U>> \in DOMAIN shared_keys =>
              /\ <<U, U>> \in DOMAIN shared_keys'
              /\ shared_keys'[<<U, U>>] = shared_keys[<<U, U>>]]_vars

\* ----------------------------------------------------------------- profiles
Deleted(u) == shards[u].profile.is_deleted \/ DbProfile(mock_profile_db, u).is_deleted
OwnerCopy(u) == shards'[u].profile
DbCopy(u) == DbProfile(mock_profile_db', u)

\* C18: deletion is terminal: delete_profile sets U's deletion flag in the
\* owner's shard and in the profile database, no later operation
\* (update_profile included) clears either flag, decrypt on U's profile
\* returns nothing for every key, and U is absent from what every later
\* fetch returns and caches.
C18_DeletionTerminal ==
    [][\A U \in Users :
          /\ ((call'.op = "delete_profile" /\ call'.user_id = U) \/ Deleted(U))
                => /\ OwnerCopy(U).is_deleted /\ DbCopy(U).is_deleted
                   /\ \A key \in Keys : /\ ProfileDecrypt(OwnerCopy(U), key) = None
                                        /\ ProfileDecrypt(DbCopy(U), key) = None
          /\ (FetchedNext /\ Deleted(U))
                => ~ListedInaccessible(U) /\ ~ListedRelevant(U)]_vars

\* alice deleted her profile, then updated it; bob's fetch does not show her
C18_Witness ==
    /\ Fetched /\ call.user_id = "bob"
    /\ Len(Chain) = 3
    /\ Chain[2].transactions[1].transaction_type = "ProfileDeletion"
    /\ Chain[3].transactions[1].transaction_type = "ProfileUpdate"
    /\ Chain[3].transactions[1].sender_id = "alice"
    /\ shards["alice"].profile.is_deleted
    /\ shards["alice"].profile.encrypted_data.plaintext = Serialize(UpdatedData)
    /\ DbProfile(mock_profile_db, "alice").is_deleted
    /\ call.returned = <<>>
    /\ shards["bob"].relevant_profiles = <<>>

ProfileRecords == {RawData.alice, RawData.bob, UpdatedData}
Updated(profile, x, k) == [profile EXCEPT !.encrypted_data = ProfileUpdate(profile, x, k, 2)]
DecryptsOnlyUnder(profile, x, k) ==
    \A key \in Keys : ProfileDecrypt(profile, key) = IF key = k THEN Some(x) ELSE None

\* Profile::new, Profile::update and Profile::decrypt over all records and keys
RoundTrip ==
    \A u \in Users, x \in ProfileRecords, k \in Keys :
        /\ DecryptsOnlyUnder(ProfileNew(u, x, k, 1), x, k)
        /\ \A k0 \in Keys : DecryptsOnlyUnder(Updated(ProfileNew(u, x, k0, 1), x, k), x, k)

C20_OwnKey ==
    \A u \in Users :
        /\ shards[u].profile.encrypted_data.key = SymmetricKey[u]
        /\ DbProfile(mock_profile_db, u).encrypted_data.key = SymmetricKey[u]

\* ------------------------------------------------------- the fetch contract
Candidates == Range(AllUsers)
Blocked(u, fetcher_id) ==
    <<fetcher_id, u>> \in BlockedUsers(ledger) \/ <<u, fetcher_id>> \in BlockedUsers(ledger)
Reports(u) == ReportedUsers(ledger, u)
Live(u) == u # Fetcher /\ ~DbProfile(mock_profile_db, u).is_deleted
KeyHeld(u) == <<Fetcher, u>> \in DOMAIN shared_keys
Revoked(u) == <<u, Fetcher>> \in RevokedKeys(ledger)
Cache == shards[call.user_id].relevant_profiles
CacheNext == shards'[Fetcher].relevant_profiles
CachedIds == [i \in 1..Len(Cache) |-> Cache[i].user_id]
PriorCachedIds == {p.user_id : p \in Range(shards[Fetcher].relevant_profiles)}

\* C21: a candidate C with a BlockUser transaction from the fetcher F to C or
\* from C to F in the chain, or with at least 2 ReportUser transactions
\* naming C as receiver, is in neither relevant_profiles nor the inaccessible
\* list after F's fetch; exactly 1 report does not exclude a candidate.
C21_BlockedAndReported ==
    [][FetchedNext =>
          \A C \in Candidates :
              /\ (Blocked(C, Fetcher) \/ Reports(C) >= 2)
                    => ~ListedRelevant(C) /\ ~ListedInaccessible(C)
              /\ (Reports(C) = 1 /\ ~Blocked(C, Fetcher) /\ Live(C))
                    => /\ (~KeyHeld(C) \/ Revoked(C)) => ListedInaccessible(C)
                       /\ (KeyHeld(C) /\ ~Revoked(C) /\ DecryptsForFetcher(C) /\ Satisfies(C))
                             => ListedRelevant(C)]_vars

\* two reports name charlie: alice's unfiltered fetch shows bob and diana only
C21_Witness ==
    /\ Fetched /\ call.user_id = "alice" /\ call.argument = NoFilter
    /\ Reports("charlie") = 2
    /\ ~DbProfile(mock_profile_db, "charlie").is_deleted
    /\ <<"alice", "charlie">> \in DOMAIN shared_keys
    /\ CachedIds = <<"bob", "diana">>
    /\ call.returned = <<>>

\* the candidates in the order the loop scans them
ScanOrder == [i \in 1..Len(mock_profile_db) |-> mock_profile_db[i].user_id]
PassesExclusion(u) == Live(u) /\ ~Blocked(u, Fetcher) /\ Reports(u) < 2
IsInaccessible(u) == PassesExclusion(u) /\ (~KeyHeld(u) \/ Revoked(u))

\* C22: the list fetch_relevant_profiles returns holds exactly the candidates
\* that are not the fetcher, not deleted, not blocked in either direction,
\* below the report threshold, and whose key (fetcher, candidate) is missing
\* or revoked by a KeyRevocation (candidate, fetcher); in scan order.
C22_InaccessibleList ==
    [][FetchedNext => call'.returned = SelectSeq(ScanOrder, IsInaccessible)]_vars

\* bob revoked alice and alice lost diana's key: both are listed, in scan order
C22_Witness ==
    /\ Fetched /\ call.user_id = "alice"
    /\ <<"bob", "alice">> \in RevokedKeys(ledger)
    /\ <<"alice", "bob">> \in DOMAIN shared_keys
    /\ <<"alice", "diana">> \notin DOMAIN shared_keys
    /\ call.returned = <<"bob", "diana">>

\* the requested predicates, on the candidate's plaintext record
Requested == call'.argument
Interests(u) == Range(Plaintext(u).interests)
MeetsRequested(u) ==
    /\ Requested.location # None => Plaintext(u).location = Requested.location[1]
    /\ Requested.min_age # None => Plaintext(u).age >= Requested.min_age[1]
    /\ Requested.max_age # None => Plaintext(u).age <= Requested.max_age[1]
    /\ Requested.interests # None => Interests(u) \cap Range(Requested.interests[1]) # {}
    /\ Requested.bio_keywords # None =>
          \E kw \in Range(Requested.bio_keywords[1]) : BioContains(Plaintext(u).bio, kw)
    /\ Requested.min_score # None =>
          calculate_interaction_score(shards[Fetcher], u) >= Requested.min_score[1]
    /\ Requested.recent_matches = Some(TRUE) =>
          \E tx \in Range(TransactionsOfType(ledger, "Match")) :
              tx.match_pair \in {Some(<<Fetcher, u>>), Some(<<u, Fetcher>>)}

\* C23: a live candidate that is not blocked, under the report threshold and
\* not revoked, whose profile meets every requested predicate and whose key
\* is held under (fetcher, candidate), is in relevant_profiles after the
\* fetch; once that entry is removed, the next fetch has the candidate out of
\* relevant_profiles and in the inaccessible list.
C23_KeyDecidesVisibility ==
    [][FetchedNext =>
          \A C \in Candidates :
              /\ (PassesExclusion(C) /\ ~Revoked(C) /\ DecryptsForFetcher(C) /\ MeetsRequested(C))
                    => ListedRelevant(C) /\ ~ListedInaccessible(C)
              /\ (PassesExclusion(C) /\ ~KeyHeld(C))
                    => ~ListedRelevant(C) /\ ListedInaccessible(C)
              /\ (call.op = "remove" /\ call.user_id = C /\ call.target_id = Fetcher
                    /\ C \in PriorCachedIds /\ PassesExclusion(C))
                    => ~ListedRelevant(C) /\ ListedInaccessible(C)]_vars

\* alice fetched with the demo's basic filter after the entry (alice, bob) was
\* removed: bob, who meets the filter, is listed as inaccessible while diana,
\* whose key alice still holds, is relevant
C23_Witness ==
    /\ Fetched /\ call.user_id = "alice" /\ call.argument = basic_filter
    /\ <<"alice", "bob">> \notin DOMAIN shared_keys
    /\ <<"alice", "diana">> \in DOMAIN shared_keys
    /\ ReportedUsers(ledger, "bob") = 0 /\ BlockedUsers(ledger) = {}
    /\ "bob" \in Range(call.returned)
    /\ CachedIds = <<"diana">>

\* C24: a candidate that passes the exclusion steps and has a key-store
\* entry (fetcher, candidate) under which its profile does not decrypt is
\* reported in the returned inaccessible list.
C24_UndecryptableIsInaccessible ==
    [][FetchedNext =>
          \A C \in Candidates :
              (PassesExclusion(C) /\ KeyHeld(C) /\ ~DecryptsForFetcher(C))
                  => ListedInaccessible(C)]_vars

Score(u) == calculate_interaction_score(shards[Fetcher], u)
ScanPosition(u) == CHOOSE i \in 1..Len(ScanOrder) : ScanOrder[i] = u
NextCachedIds == [i \in 1..Len(CacheNext) |-> CacheNext[i].user_id]

\* C25: after a fetch whose filter has a minimum score, relevant_profiles is
\* in non-increasing order of cumulative interaction score and candidates of
\* equal score keep scan order; after a fetch whose filter has none,
\* relevant_profiles is in scan order.
C25_Ranking ==
    [][FetchedNext =>
          \A i, j \in 1..Len(NextCachedIds) :
              i < j =>
                  IF Requested.min_score # None
                  THEN /\ Score(NextCachedIds[i]) >= Score(NextCachedIds[j])
                       /\ Score(NextCachedIds[i]) = Score(NextCachedIds[j])
                             => ScanPosition(NextCachedIds[i]) < ScanPosition(NextCachedIds[j])
                  ELSE ScanPosition(NextCachedIds[i]) < ScanPosition(NextCachedIds[j])]_vars

\* scores bob 5, charlie 7, diana 7 and a minimum score of 5: charlie and
\* diana move ahead of bob and keep their scan order
C25_Witness ==
    /\ Fetched /\ call.user_id = "alice" /\ call.argument = score_filter
    /\ CachedIds = <<"charlie", "diana", "bob">>
    /\ [i \in 1..3 |-> calculate_interaction_score(shards["alice"], CachedIds[i])] = <<7, 7, 5>>

\* what a fetch's inputs alone say the cache holds
VisibleFromInputs ==
    {C \in Candidates : /\ PassesExclusion(C) /\ KeyHeld(C) /\ ~Revoked(C)
                        /\ DecryptsForFetcher(C) /\ MeetsRequested(C)}

\* C26: relevant_profiles is rebuilt from scratch by every fetch: it holds
\* each candidate the call's inputs make visible exactly once and nothing the
\* previous cache held besides, so a fetch that directly follows a fetch by
\* the same shard with the same filter leaves the same cache and returns the
\* same inaccessible list.
C26_CacheRebuilt ==
    [][FetchedNext =>
          /\ Range(NextCachedIds) = VisibleFromInputs
          /\ Len(NextCachedIds) = Cardinality(VisibleFromInputs)
          /\ (Fetched /\ call.user_id = Fetcher /\ call.argument = Requested)
                => /\ CacheNext = shards[Fetcher].relevant_profiles
                   /\ call'.returned = call.returned]_vars

\* the fetch replaced a cache holding bob by a non-empty one without bob
C26_Witness ==
    /\ Fetched /\ call.user_id = "alice"
    /\ "bob" \in {p.user_id : p \in Range(call.replaced)}
    /\ Cache # <<>>
    /\ "bob" \notin Range(CachedIds)

\* C27: a fetch changes nothing but the calling shard's relevant_profiles:
\* the chain, the difficulty and EMA state, the key store, the candidate
\* profiles, every other shard, and the caller's own profile, interactions
\* and messages are as before the call.
C27_FetchFrame ==
    [][FetchedNext =>
          /\ ledger' = ledger
          /\ shared_keys' = shared_keys
          /\ mock_profile_db' = mock_profile_db
          /\ \A u \in DOMAIN shards : u # Fetcher => shards'[u] = shards[u]
          /\ shards'[Fetcher] = [shards[Fetcher] EXCEPT !.relevant_profiles = CacheNext]]_vars

\* a fetch that replaced the cache and listed the revoked bob, whose key is
\* still in the store afterwards
C27_Witness ==
    /\ Fetched /\ call.user_id = "alice"
    /\ call.replaced # Cache
    /\ call.returned = <<"bob">>
    /\ <<"bob", "alice">> \in RevokedKeys(ledger)
    /\ <<"alice", "bob">> \in DOMAIN shared_keys
    /\ shards["alice"].interactions = ScoredInteractions

\* --------------------------------------------------- transaction payloads
PayloadFields ==
    {"amount", "duration", "reason", "user_id", "updated_profile", "match_pair",
     "revoked_key_pair", "encrypted_key", "encrypted_content"}
Kinds ==
    {"PeaceTransfer", "ProfileDeletion", "ProfileUpdate", "Match", "KeyRevocation", "Message",
     "Like", "PhotoShare", "BlockUser", "VideoCall", "ReportUser", "KeyShare"}

\* the payload fields the data model lists per kind
ListedPayload(kind) ==
    CASE kind = "PeaceTransfer" -> {"amount"}
      [] kind = "VideoCall" -> {"duration"}
      [] kind = "ReportUser" -> {"reason"}
      [] kind = "ProfileUpdate" -> {"user_id", "updated_profile"}
      [] kind = "Match" -> {"match_pair"}
      [] kind = "KeyRevocation" -> {"revoked_key_pair"}
      [] kind = "KeyShare" -> {"encrypted_key"}
      [] kind \in {"Message", "PhotoShare"} -> {"encrypted_content"}
      [] OTHER -> {}

\* the same, with the user id a ProfileDeletion carries
ConstructedPayload(kind) ==
    IF kind = "ProfileDeletion" THEN {"user_id"} ELSE ListedPayload(kind)

Populated(tx) == {f \in PayloadFields : tx[f] # None}
Constructed == Range(ChainTransactions(ledger.chain))
KindsInChain == {tx.transaction_type : tx \in Constructed}

\* C28 as stated: every constructed transaction has exactly the payload
\* fields listed for its kind populated (user id only for ProfileUpdate).
C28_Original ==
    \A tx \in Constructed :
        tx.transaction_type \in Kinds /\ Populated(tx) = ListedPayload(tx.transaction_type)

\* C28: every constructed transaction has exactly the payload fields of its
\* kind populated and all others empty: amount for PeaceTransfer, duration
\* for VideoCall, reason for ReportUser, user id for ProfileDeletion, user id
\* and updated-profile bytes for ProfileUpdate, match pair for Match, revoked
\* pair for KeyRevocation, encrypted key for KeyShare, encrypted content for
\* Message and PhotoShare, none for Like and BlockUser.
C28_PayloadFields ==
    \A tx \in Constructed :
        tx.transaction_type \in Kinds /\ Populated(tx) = ConstructedPayload(tx.transaction_type)

\* the chain holds a ProfileDeletion carrying its user id, next to
\* transactions of nine other kinds
C28_Witness ==
    /\ \E tx \in Constructed :
          tx.transaction_type = "ProfileDeletion" /\ Populated(tx) = {"user_id"}
    /\ \E tx \in Constructed :
          tx.transaction_type = "ProfileUpdate" /\ Populated(tx) = {"user_id", "updated_profile"}
    /\ Cardinality(KindsInChain) >= 9
    /\ "Match" \in KindsInChain

\* ----------------------------------------------------------- proof of work
Mined == Last(ledger'.chain)
MinedBy == CHOOSE m \in Range(ledger.miners) : m.name = Mined.miner_name
SearchedAt == AsUsize(ledger.difficulty)
Tried(k) == [Mined EXCEPT !.nonce = k * Increment(MinedBy)]

\* C29: when mine_block has returned for the block add_block builds at the
\* integer difficulty d, the stored hash is the hash of the block's fields
\* with the final nonce and has at least d leading zero hex digits; the
\* final nonce is the first multiple of the miner's stride whose hash does;
\* transactions, previous_hash, timestamp and miner_name are those the block
\* was created with, and the blocks already in the chain are untouched.
C29_MinedBlock ==
    [][Len(ledger'.chain) = Len(ledger.chain) + 1 =>
          /\ Mined.hash = compute_hash(Mined)
          /\ Mined.hash.zeros >= SearchedAt
          /\ Mined.nonce % Increment(MinedBy) = 0
          /\ \A j \in 0..((Mined.nonce \div Increment(MinedBy)) - 1) :
                compute_hash(Tried(j)).zeros < SearchedAt
          /\ Mined.previous_hash = Last(ledger.chain).hash
          /\ Mined.timestamp = clock
          /\ Mined.miner_name \in {m.name : m \in Range(ledger.miners)}
          /\ Mined.transactions # <<>>
          /\ SubSeq(ledger'.chain, 1, Len(ledger.chain)) = ledger.chain]_vars

\* a block mined at difficulty 2 or more after the search moved the nonce
C29_Witness ==
    /\ Len(ledger.chain) >= 2
    /\ AsUsize(Last(in_force)) >= 2
    /\ Last(ledger.chain).nonce > 0
    /\ Last(ledger.chain).hash.zeros >= AsUsize(Last(in_force))
    /\ Last(ledger.chain).hash = compute_hash(Last(ledger.chain))

\* --------------------------------------------------------------- termination
\* C30: the proof-of-work search always terminates: for every mining power
\* and every difficulty the ledger can reach, mine_block eventually returns,
\* given that a hash recomputed over a new nonce matches sooner or later.
C30_MiningTerminates == <>(mining.returned)

\* ------------------------------------------------------------ empty roster
Constructed31 == ledger # None
EmptyRoster == Constructed31 /\ ledger.miners = <<>>

\* C31: an empty miner roster is fatal: GlobalLedger::new with no miner and
\* add_block on a ledger with no miner abort, and the aborted call appends no
\* block and changes no difficulty, duration or EMA state (no ledger exists
\* after an aborted construction); a ledger is built or extended only with a
\* miner at hand.
C31_EmptyRosterFatal ==
    [][/\ call'.op = "panic" => ledger' = ledger /\ in_force' = in_force
       /\ (EmptyRoster /\ ~Panicked) => call'.op = "panic"
       /\ (~Constructed31 /\ ledger' # None) => ledger'.miners # <<>>
       /\ (Constructed31 /\ ledger' # ledger) => ledger.miners # <<>>]_vars

\* add_block aborted on a ledger without miners: the chain is the genesis
\* block alone and nothing was recorded
C31_Witness ==
    /\ Panicked /\ call.argument = "add_block"
    /\ EmptyRoster
    /\ Len(ledger.chain) = 1
    /\ ledger.mining_durations = <<>> /\ ledger.ema_block_time = None
    /\ ledger.difficulty = RInt(INITIAL_DIFFICULTY)

\* ------------------------------------------------------------ the nonce stride
KnownMiners == UNION {Range(miners) : miners \in Rosters}
MinerOf(block) == CHOOSE m \in KnownMiners : m.name = block.miner_name
AsCreated(block) == [block EXCEPT !.nonce = 0]
AttemptsFor(i) ==
    FailedAttempts(MinerOf(ledger.chain[i]), AsCreated(ledger.chain[i]), AsUsize(in_force[i]))
\* mining_power * 1000, rounded half away from zero and cut to its integer part
RoundedStride(miner) ==
    (2 * 1000 * miner.mining_power[1] + miner.mining_power[2]) \div (2 * miner.mining_power[2])
TruncatedStride(miner) == (1000 * miner.mining_power[1]) \div miner.mining_power[2]

\* C32 as stated: the nonce of every mined block equals the number of failed
\* attempts times round(mining_power * 1000).
C32_Original ==
    ledger # None =>
        \A i \in 1..Len(ledger.chain) :
            ledger.chain[i].nonce = AttemptsFor(i) * RoundedStride(MinerOf(ledger.chain[i]))

\* C32: mine_block starts from nonce 0 and advances the nonce on each failed
\* attempt by mining_power * 1000 cut to its integer part, so the nonce of
\* every mined block equals the number of failed attempts times that stride.
C32_NonceStride ==
    ledger # None =>
        \A i \in 1..Len(ledger.chain) :
            ledger.chain[i].nonce = AttemptsFor(i) * TruncatedStride(MinerOf(ledger.chain[i]))

\* the miner of power 1.0625 needed at least two attempts: its nonce is a
\* multiple of 1062, not of 1063
C32_Witness ==
    /\ ledger # None /\ Len(ledger.chain) >= 2
    /\ Last(ledger.chain).miner_name = "Miner4"
    /\ AttemptsFor(Len(ledger.chain)) >= 2
    /\ Last(ledger.chain).nonce = AttemptsFor(Len(ledger.chain)) * 1062

\* C33: revocation is directional: after revoke_key by A with target B, and
\* with no revocation by B, a fetch by A that holds the key (A, B) and finds B
\* an eligible candidate does not list B as inaccessible, and has B in
\* relevant_profiles when B's profile decrypts and satisfies the filter.
C33_RevocationDirectional ==
    [][FetchedNext =>
          \A B \in Users \ {Fetcher} :
              (/\ grants[<<Fetcher, B>>] = "revoked"
               /\ grants[<<B, Fetcher>>] = "shared"
               /\ <<Fetcher, B>> \in DOMAIN shared_keys
               /\ Eligible(B, Fetcher))
                  => /\ ~ListedInaccessible(B)
                     /\ (DecryptsForFetcher(B) /\ Satisfies(B)) => ListedRelevant(B)]_vars

\* alice revoked bob and then fetched with the basic filter: bob is still
\* among her relevant profiles, and the chain holds her revocation
C33_Witness ==
    /\ Fetched /\ call.user_id = "alice" /\ call.argument = basic_filter
    /\ grants[<<"alice", "bob">>] = "revoked" /\ grants[<<"bob", "alice">>] = "shared"
    /\ <<"alice", "bob">> \in RevokedKeys(ledger)
    /\ <<"bob", "alice">> \notin DOMAIN shared_keys
    /\ call.returned = <<>>
    /\ CachedIds = <<"bob">>

UpdateTx == Last(ledger'.chain).transactions[1]

\* C34: after update_profile for user U the encrypted payload of U's profile
\* in the shard, the encrypted payload of U's entry in the profile database
\* and the updated-profile bytes of the appended ProfileUpdate transaction
\* are equal, and the deletion flags of both copies are as before the call.
C34_UpdateWritesThreeCopies ==
    [][call'.op = "update_profile" =>
          LET U == call'.user_id
          IN  /\ OwnerCopy(U).encrypted_data = DbCopy(U).encrypted_data
              /\ UpdateTx.transaction_type = "ProfileUpdate"
              /\ UpdateTx.user_id = Some(U)
              /\ UpdateTx.updated_profile = Some(OwnerCopy(U).encrypted_data)
              /\ Decrypt(OwnerCopy(U).encrypted_data, call'.argument[2])
                    = Some(Serialize(call'.argument[1]))
              /\ OwnerCopy(U).is_deleted = shards[U].profile.is_deleted
              /\ DbCopy(U).is_deleted = DbProfile(mock_profile_db, U).is_deleted]_vars

\* alice's update: one new payload in her shard, in the database and in the
\* last block's transaction
C34_Witness ==
    /\ call.op = "update_profile" /\ call.user_id = "alice"
    /\ shards["alice"].profile.encrypted_data # MainProfileDb[2].encrypted_data
    /\ DbProfile(mock_profile_db, "alice").encrypted_data = shards["alice"].profile.encrypted_data
    /\ Last(ledger.chain).transactions[1].updated_profile
          = Some(shards["alice"].profile.encrypted_data)
    /\ ~shards["alice"].profile.is_deleted

\* ------------------------------------------------------- duration history
DurationsMatchChain(l) == Len(l.mining_durations) = Len(l.chain) - 1

\* C35: the number of recorded mining durations equals the chain length
\* minus one in every reachable state: genesis has none, and each appended
\* block comes with exactly one new duration, pushed after those already
\* recorded, so that block i has its duration at index i - 1.
C35_OneDurationPerBlock ==
    [][/\ DurationsMatchChain(ledger) /\ DurationsMatchChain(ledger')
       /\ Len(ledger'.chain) # Len(ledger.chain)
             => /\ Len(ledger'.chain) = Len(ledger.chain) + 1
                /\ Len(ledger'.mining_durations) = Len(ledger.mining_durations) + 1
                /\ SubSeq(ledger'.mining_durations, 1, Len(ledger.mining_durations))
                      = ledger.mining_durations
       /\ Len(ledger'.chain) = Len(ledger.chain)
             => ledger'.mining_durations = ledger.mining_durations]_vars

\* three blocks, two of them appended by add_block and a shard operation,
\* with two durations
C35_Witness ==
    /\ Len(ledger.chain) = 3 /\ ops >= 1
    /\ Len(ledger.mining_durations) = 2
    /\ clock = AsUsize(ledger.mining_durations[1]) + AsUsize(ledger.mining_durations[2])

\* ---------------------------------------------------------- EMA at retarget
MeanOfRecent == RDiv(RSum(RecentDurations(ledger)), RInt(Len(RecentDurations(ledger))))

\* C36: whenever adjust_difficulty runs the EMA block time is already set,
\* and the average it compares is that EMA: the mean of the recent mining
\* durations is never what it falls back to.
C36_EmaSetAtRetarget ==
    /\ retarget.called => ledger.ema_block_time # None
    /\ retarget.compared => retarget.avg = ledger.ema_block_time
    /\ Len(ledger.chain) > 1 => ledger.ema_block_time # None

\* a retarget compared an EMA that differs from the mean of its window
C36_Witness ==
    /\ retarget.called /\ retarget.compared
    /\ ledger.ema_block_time # None
    /\ retarget.avg = ledger.ema_block_time
    /\ retarget.avg # Some(MeanOfRecent)

\* ------------------------------------------------------ when difficulty moves
Window(l) ==
    SubSeq(l.mining_durations,
           IF Len(l.mining_durations) > l.adjustment_interval
           THEN Len(l.mining_durations) - l.adjustment_interval + 1 ELSE 1,
           Len(l.mining_durations))

\* C37: a step changes the difficulty only if the window of the most recent
\* adjustment_interval mining durations holds at least 2 entries and the
\* resulting chain length, genesis included, is a multiple of
\* adjustment_interval; a ledger with adjustment_interval = 1 keeps its
\* initial difficulty whatever the durations.
C37_WhenDifficultyMoves ==
    [][/\ ledger'.difficulty # ledger.difficulty
             => /\ Len(Window(ledger')) >= 2
                /\ Len(ledger'.chain) % ledger'.adjustment_interval = 0
                /\ Len(ledger'.chain) = Len(ledger.chain) + 1
       /\ ledger.adjustment_interval = 1
             => ledger'.difficulty = ledger.difficulty /\ ledger.difficulty = in_force[1]]_vars

\* adjustment_interval = 1: three blocks mined in well under half the target
\* time, a retarget called after each, and the difficulty still the initial
\* one, below max_difficulty
C37_Witness ==
    /\ ledger.adjustment_interval = 1
    /\ Len(ledger.chain) >= 4
    /\ retarget.called /\ ~retarget.compared
    /\ RLt(ledger.ema_block_time[1], RMul(ledger.target_block_time, <<1, 2>>))
    /\ ledger.difficulty = in_force[1]
    /\ RLt(ledger.difficulty, RInt(ledger.max_difficulty))

\* ------------------------------------------------------ the two fetch lists
NoRepeats(ids) == \A i, j \in 1..Len(ids) : ids[i] = ids[j] => i = j
DistinctCandidates == NoRepeats(ScanOrder)
DeletedIds == {p.user_id : p \in {q \in Range(mock_profile_db) : q.is_deleted}}

\* C38: with candidates of distinct user ids, after every fetch no user id
\* is both in relevant_profiles and in the returned inaccessible list, none
\* appears twice in either, and neither holds the fetcher or a deleted
\* profile.
C38_ListsDisjoint ==
    [][(FetchedNext /\ DistinctCandidates) =>
          /\ Range(NextCachedIds) \cap Range(call'.returned) = {}
          /\ NoRepeats(NextCachedIds) /\ NoRepeats(call'.returned)
          /\ Fetcher \notin Range(NextCachedIds) \cup Range(call'.returned)
          /\ DeletedIds \cap (Range(NextCachedIds) \cup Range(call'.returned)) = {}
          /\ \A p \in Range(CacheNext) : ~p.is_deleted]_vars

\* charlie is deleted, alice holds her own key and bob's but not diana's:
\* her unfiltered fetch has bob relevant and diana inaccessible
C38_Witness ==
    /\ Fetched /\ call.user_id = "alice" /\ call.argument = NoFilter
    /\ DbProfile(mock_profile_db, "charlie").is_deleted
    /\ <<"alice", "alice">> \in DOMAIN shared_keys
    /\ CachedIds = <<"bob">>
    /\ call.returned = <<"diana">>

\* ------------------------------------------------- bounds and direction
WellConstructed == AtMost(MinD, in_force[1]) /\ AtMost(in_force[1], MaxD)
\* a/b <= c/d on positive pairs, by integer parts and then by the reciprocals
\* of the fractional parts, so that no product is formed
RECURSIVE NoMoreThan(_, _)
NoMoreThan(a, b) ==
    IF a[1] \div a[2] # b[1] \div b[2] THEN a[1] \div a[2] < b[1] \div b[2]
    ELSE IF a[1] % a[2] = 0 THEN TRUE
    ELSE IF b[1] % b[2] = 0 THEN FALSE
    ELSE NoMoreThan(<<b[2], b[1] % b[2]>>, <<a[2], a[1] % a[2]>>)

\* C39: a ledger constructed with min_difficulty <= initial_difficulty <=
\* max_difficulty keeps min_difficulty <= difficulty <= max_difficulty after
\* any sequence of add_block calls, block by block; its increasing branch
\* never leaves the difficulty lower than it found it, and its decreasing
\* branch never leaves it higher.
C39_BoundedAndMonotone ==
    WellConstructed =>
        /\ \A i \in 1..Len(in_force) : AtMost(MinD, in_force[i]) /\ AtMost(in_force[i], MaxD)
        /\ AtMost(MinD, Difficulty) /\ AtMost(Difficulty, MaxD)
        /\ (retarget.compared /\ Fast(Avg)) => NoMoreThan(Old, Difficulty)
        /\ (retarget.compared /\ Slow(Avg)) => NoMoreThan(Difficulty, Old)

\* a well-constructed ledger whose retarget took the decreasing branch: the
\* scaled difficulty was below min_difficulty and the difficulty went down
\* to min_difficulty, no further
C39_Witness ==
    /\ WellConstructed
    /\ retarget.compared /\ Slow(Avg)
    /\ Less(Scaled, MinD)
    /\ ~NoMoreThan(Old, Difficulty)
    /\ Difficulty = MinD
    /\ Len(in_force) >= 3

=============================================================================
